---------------------------- MODULE Spec2Model ----------------------------
(***************************************************************************)
(* Gesture-matching engine of the BOLO fingerspelling game.                *)
(*                                                                         *)
(*   Detection.jsx   live attempt: countdown, sequence sampling, matching  *)
(*   Dataset.jsx     reference capture: dynamic sampling, finalization     *)
(*   VectorStore.js  the SignVectorStore singleton                         *)
(*                                                                         *)
(* Conventions.  A JavaScript string is a sequence of one-character        *)
(* strings, so that split(' ') and startsWith are computed and not         *)
(* assumed.  A landmark is a triple <<x, y, z>> of integers (fixed-point    *)
(* coordinates); a frame is a sequence of landmarks.  null is written as   *)
(* the token "null" for the hand type and the result, and as the empty     *)
(* sequence for liveKeypoints and failureMessage.  A cosine similarity is  *)
(* kept exactly, as the pair (dot, mm) standing for dot / sqrt(mm).        *)
(***************************************************************************)
EXTENDS Integers, Sequences, FiniteSets, TLC

VARIABLES
    page,                 \* the mounted route: "detection", "dataset", "result", "none"
    firestore,            \* the persisted collection: sequence of [id, label, keypoints]
    \* ---- VectorStore.js (singleton) ----
    vectors, dimensions, isInitialized,
    \* ---- Detection.jsx ----
    processedNameLetters, currentLetterIndex,
    isModelLoading, isWebcamError, isVectorStoreLoading,
    liveKeypoints, handType, incomingFrameCounter,
    isDetecting, result, countdown, currentScore, failureMessage,
    sequenceBuffer, isProcessingSequence,
    lastDecision,         \* what the last decision saw (the console.log of the match)
    \* ---- both pages ----
    lastAlert,            \* the alert() or confirm() the last click raised, "none" if none
    poseChanges,          \* environment: how often the pose input has changed
    \* ---- Dataset.jsx ----
    isCapturing, captureBuffer, timeoutId, captureFrameCounter, captureParams,
    samplesTaken, actualFPS, targetGap,
    currentHand, letterInput, currentVersion, dataEntries, detectedHand,
    isProcessing, status,
    stopCall,             \* the handleStopCapture call that is suspended at an await
    mountFetch,           \* the fetchTotalEntries of the mount effect is pending
    timers,               \* the armed setTimeout callbacks
    frameRate,            \* environment: frames per second of the camera
    capturesStarted,      \* environment: how many captures the user has started
    \* ---- the finalization and the decision, applied to a given buffer ----
    givenBuffer,          \* the buffer handed to the finalization
    finalized,            \* what the two pages make of it
    \* ---- mirrorVector and the store's queries, applied to a given vector ----
    givenVector,          \* the vector handed to the function
    returned,             \* what each function returned for it
    \* ---- Dataset.jsx: the handlers of the data summary ----
    asyncCalls,           \* the average, mirror and delete calls suspended at an await
    callsStarted,         \* environment: how many such calls the user has started
    docsCreated           \* how many documents the collection has ever been given

detectionVars ==
    << processedNameLetters, currentLetterIndex, isModelLoading, isWebcamError,
       isVectorStoreLoading, liveKeypoints, handType, incomingFrameCounter,
       isDetecting, result, countdown, currentScore, failureMessage,
       sequenceBuffer, isProcessingSequence, lastDecision >>

sharedVars == << lastAlert, poseChanges >>

storeVars == << vectors, dimensions, isInitialized >>

datasetVars ==
    << isCapturing, captureBuffer, timeoutId, captureFrameCounter, captureParams,
       samplesTaken, actualFPS, targetGap, currentHand, letterInput, currentVersion,
       dataEntries, detectedHand, isProcessing, status, stopCall, mountFetch, timers,
       frameRate, capturesStarted >>

callVars == << givenBuffer, finalized, givenVector, returned >>

manageVars == << asyncCalls, callsStarted >>

vars ==
    << page, firestore, docsCreated, storeVars, detectionVars, datasetVars, sharedVars,
       callVars, manageVars >>

-----------------------------------------------------------------------------
(* Program constants *)

TARGET_FRAME_COUNT == 7
SAMPLE_RATE == 10
LANDMARK_COUNT == 21
VECTOR_LENGTH == TARGET_FRAME_COUNT * LANDMARK_COUNT * 3
\* SIMILARITY_THRESHOLD = 0.70, as the fraction THRESHOLD_NUM / THRESHOLD_DEN
THRESHOLD_NUM == 7
THRESHOLD_DEN == 10
COUNTDOWN_START == 3

ZERO_KEYPOINT == << 0, 0, 0 >>

(* Bounds of the model *)

\* how often the pose capability's output may change during a session
MaxPoseChanges == 2

\* how many captures the user starts on the Dataset page
MaxCaptures == 1

\* how many captures the user starts in a session of repeated captures
MaxRecaptures == 2

\* by how many frames the 3 s timer of a capture may fire late
MaxLateFrames == 1

\* how many frames the Dataset page sees in a row while no capture runs
MaxIdleFrames == 2

\* how many average, mirror and delete requests the user makes
MaxCalls == 2

-----------------------------------------------------------------------------
(* Strings *)

RIGHT == << "R", "I", "G", "H", "T" >>
LEFT == << "L", "E", "F", "T" >>
SPACE == << " " >>
NO_MATCH == << "N", "O", "_", "M", "A", "T", "C", "H" >>
TIMEOUT == << "T", "I", "M", "E", "O", "U", "T" >>
WRONG_SIGN_PREFIX == << "W", "R", "O", "N", "G", "_", "S", "I", "G", "N", ":" >>

\* String.prototype.startsWith
StartsWith(s, prefix) ==
    /\ Len(prefix) <= Len(s)
    /\ SubSeq(s, 1, Len(prefix)) = prefix

\* String.prototype.split(' '): the fields between single spaces
RECURSIVE SplitFrom(_, _, _)
SplitFrom(s, i, field) ==
    IF i > Len(s) THEN << field >>
    ELSE IF s[i] = " " THEN << field >> \o SplitFrom(s, i + 1, << >>)
    ELSE SplitFrom(s, i + 1, Append(field, s[i]))

Split(s) == SplitFrom(s, 1, << >>)

\* parts[k] of a split, undefined (here the empty string) when missing
Field(s, k) == IF k <= Len(Split(s)) THEN Split(s)[k] ELSE << >>

\* handType.toUpperCase() for the two labels the pose capability gives
ToUpperHand(h) == IF h = "Right" THEN RIGHT ELSE LEFT


Label(hand, symbol, variant) == hand \o SPACE \o symbol \o SPACE \o variant

-----------------------------------------------------------------------------
(* Frames *)

IsZeroKeypoint(kp) == kp[1] = 0 /\ kp[2] = 0 /\ kp[3] = 0

\* frame.every(kp => kp.x === 0 && kp.y === 0 && kp.z === 0)
EveryZero(frame) == \A i \in 1..Len(frame) : IsZeroKeypoint(frame[i])

\* new Array(21).fill(ZERO_KEYPOINT)
ZeroFrame == [i \in 1..LANDMARK_COUNT |-> ZERO_KEYPOINT]

\* Detection.jsx normalizeKeypoints: null (ok = FALSE) unless 21 landmarks
normalizeKeypoints(keypoints) ==
    IF Len(keypoints) # LANDMARK_COUNT
    THEN [ok |-> FALSE, frame |-> << >>]
    ELSE [ok |-> TRUE,
          frame |-> [i \in 1..Len(keypoints) |->
                        << keypoints[i][1] - keypoints[1][1],
                           keypoints[i][2] - keypoints[1][2],
                           keypoints[i][3] - keypoints[1][3] >>]]

\* a finalization that truncates but does not pad
framesToProcessNoPad(rawFrames) ==
    IF Len(rawFrames) > TARGET_FRAME_COUNT
    THEN SubSeq(rawFrames, 1, TARGET_FRAME_COUNT)
    ELSE rawFrames

\* steps 1 and 2 of processSequenceToVector: truncate to N, pad with zero frames
framesToProcess(rawFrames) ==
    LET truncated == IF Len(rawFrames) > TARGET_FRAME_COUNT
                     THEN SubSeq(rawFrames, 1, TARGET_FRAME_COUNT)
                     ELSE rawFrames
        missingFramesCount == TARGET_FRAME_COUNT - Len(truncated)
    IN  IF missingFramesCount > 0
        THEN truncated \o [i \in 1..missingFramesCount |-> ZeroFrame]
        ELSE truncated

\* step 3: zero frames pass through, the others are normalized, nulls are dropped
normalizedFrames(frames) ==
    LET mapped == [i \in 1..Len(frames) |->
                      IF EveryZero(frames[i])
                      THEN [ok |-> TRUE, frame |-> frames[i]]
                      ELSE normalizeKeypoints(frames[i])]
    IN  SelectSeq(mapped, LAMBDA m : m.ok)

\* flattenKeypoints: x, y, z of every landmark, frame after frame
RECURSIVE flattenFrom(_, _)
flattenFrom(frames, i) ==
    IF i > Len(frames) THEN << >>
    ELSE LET f == frames[i].frame
         IN  [k \in 1..(3 * Len(f)) |-> f[((k - 1) \div 3) + 1][((k - 1) % 3) + 1]]
             \o flattenFrom(frames, i + 1)

flattenKeypoints(frames) == flattenFrom(frames, 1)

\* processSequenceToVector: null (ok = FALSE) when the length is not 441
processSequenceToVector(rawFrames) ==
    LET finalVector == flattenKeypoints(normalizedFrames(framesToProcess(rawFrames)))
    IN  IF Len(finalVector) # VECTOR_LENGTH
        THEN [ok |-> FALSE, vector |-> << >>]
        ELSE [ok |-> TRUE, vector |-> finalVector]

-----------------------------------------------------------------------------
(* Cosine similarity, kept exactly: [dot, mm] stands for dot / sqrt(mm) *)

\* f[lo] + ... + f[hi], by halves
RECURSIVE SumRange(_, _, _)
SumRange(f, lo, hi) ==
    IF lo > hi THEN 0
    ELSE IF lo = hi THEN f[lo]
    ELSE LET mid == (lo + hi) \div 2
         IN  SumRange(f, lo, mid) + SumRange(f, mid + 1, hi)

SumTo(f, n) == SumRange(f, 1, n)

Dot(v1, v2) == SumTo([i \in 1..Len(v1) |-> v1[i] * v2[i]], Len(v1))

\* the similarity NaN: with mm = 0 every comparison with it is false
NaN == [dot |-> 0, mm |-> 0]

\* VectorStore._cosineSimilarity: the loop runs over v1, so what v2 has beyond
\* Len(v1) is not read, and a v2 shorter than v1 is read as undefined there,
\* which makes the dot product and magnitude2 NaN.  0 when a magnitude is 0.
cosineSimilarity(v1, v2) ==
    LET magnitude1 == Dot(v1, v1)
        magnitude2 == SumTo([i \in 1..Len(v1) |-> v2[i] * v2[i]], Len(v1))
    IN  IF magnitude1 = 0 THEN [dot |-> 0, mm |-> 1]
        ELSE IF Len(v2) < Len(v1) THEN NaN
        ELSE IF magnitude2 = 0 THEN [dot |-> 0, mm |-> 1]
        ELSE [dot |-> Dot(v1, v2), mm |-> magnitude1 * magnitude2]

Abs(x) == IF x < 0 THEN -x ELSE x

\* a > b for two similarities
SimGreater(a, b) == a.dot * Abs(a.dot) * b.mm > b.dot * Abs(b.dot) * a.mm

SimPositive(a) == a.dot > 0

\* similarityScore >= SIMILARITY_THRESHOLD
SimAtLeastThreshold(a) ==
    /\ a.dot >= 0
    /\ THRESHOLD_DEN * THRESHOLD_DEN * a.dot * a.dot >= THRESHOLD_NUM * THRESHOLD_NUM * a.mm

\* Math.floor in the place of Math.round
RoundPercentFloor(a) ==
    CHOOSE p \in 0..100 :
        /\ p * p * a.mm <= 100 * a.dot * 100 * a.dot
        /\ 100 * a.dot * 100 * a.dot < (p + 1) * (p + 1) * a.mm

\* Math.round(similarityScore * 100), for a similarity in [0, 1]
RoundPercent(a) ==
    CHOOSE p \in 0..100 :
        /\ (p = 0 \/ (2 * p - 1) * (2 * p - 1) * a.mm <= 200 * a.dot * 200 * a.dot)
        /\ 200 * a.dot * 200 * a.dot < (2 * p + 1) * (2 * p + 1) * a.mm

-----------------------------------------------------------------------------
(* VectorStore.js *)

\* curr.label.split(' ').slice(0, 2).join(' ')
signKeyOf(label) ==
    LET parts == Split(label)
    IN  IF Len(parts) = 1 THEN parts[1] ELSE parts[1] \o SPACE \o parts[2]

\* the keys of groupedVectors, in the order in which they first appear
RECURSIVE signKeysFrom(_, _, _)
signKeysFrom(vs, i, keys) ==
    IF i > Len(vs) THEN keys
    ELSE LET k == signKeyOf(vs[i].label)
         IN  signKeysFrom(vs, i + 1,
                IF \E j \in 1..Len(keys) : keys[j] = k THEN keys ELSE Append(keys, k))

groupedKeys(vs) == signKeysFrom(vs, 1, << >>)

groupOf(vs, signKey) == SelectSeq(vs, LAMBDA e : signKeyOf(e.label) = signKey)

\* numVectors times the average vector of a group.  The code divides the sum by
\* numVectors before comparing; the cosine similarity of a query with a vector
\* and with its positive multiple is the same number, so the sum is compared.
avgVectorTimesN(group, dims) ==
    [i \in 1..dims |-> SumTo([g \in 1..Len(group) |-> group[g].keypoints[i]], Len(group))]

NoMatch == [found |-> FALSE, label |-> << >>, similarity |-> [dot |-> -1, mm |-> 1]]

\* a loop in which an equal similarity replaces the best match so far as well
RECURSIVE bestOverVectorsLastWins(_, _, _, _)
bestOverVectorsLastWins(vs, i, queryVector, best) ==
    IF i > Len(vs) THEN best
    ELSE LET similarity == cosineSimilarity(queryVector, vs[i].keypoints)
         IN  bestOverVectorsLastWins(vs, i + 1, queryVector,
                IF ~SimGreater(best.similarity, similarity)
                THEN [found |-> TRUE, label |-> vs[i].label, similarity |-> similarity]
                ELSE best)

\* the loop of findBestMatch over the stored signs: a strictly greater
\* similarity replaces the best match so far
RECURSIVE bestOverVectors(_, _, _, _)
bestOverVectors(vs, i, queryVector, best) ==
    IF i > Len(vs) THEN best
    ELSE LET similarity == cosineSimilarity(queryVector, vs[i].keypoints)
         IN  bestOverVectors(vs, i + 1, queryVector,
                IF SimGreater(similarity, best.similarity)
                THEN [found |-> TRUE, label |-> vs[i].label, similarity |-> similarity]
                ELSE best)

\* a findBestMatch without the test of the query's length
findBestMatchUnchecked(vs, dims, init, queryVector) ==
    IF ~init \/ Len(vs) = 0 THEN NoMatch
    ELSE LET best == bestOverVectors(vs, 1, queryVector, NoMatch)
         IN  IF SimPositive(best.similarity) THEN best ELSE NoMatch

\* VectorStore.findBestMatch on a store (vs, dims, init); null is NoMatch
findBestMatchIn(vs, dims, init, queryVector) ==
    IF ~init \/ Len(vs) = 0 THEN NoMatch
    ELSE IF Len(queryVector) # dims THEN NoMatch
    ELSE LET best == bestOverVectors(vs, 1, queryVector, NoMatch)
         IN  IF SimPositive(best.similarity) THEN best ELSE NoMatch

findBestMatch(queryVector) ==
    findBestMatchIn(vectors, dimensions, isInitialized, queryVector)

\* the loop of findBestMatchAveraged over the groups: a strictly greater
\* similarity replaces the best match so far
RECURSIVE bestOverGroups(_, _, _, _, _, _)
bestOverGroups(vs, dims, keys, i, queryVector, best) ==
    IF i > Len(keys) THEN best
    ELSE LET similarity ==
                 cosineSimilarity(queryVector, avgVectorTimesN(groupOf(vs, keys[i]), dims))
         IN  bestOverGroups(vs, dims, keys, i + 1, queryVector,
                IF SimGreater(similarity, best.similarity)
                THEN [found |-> TRUE, label |-> keys[i], similarity |-> similarity]
                ELSE best)

\* VectorStore.findBestMatchAveraged on a store (vs, dims, init)
findBestMatchAveragedIn(vs, dims, init, queryVector) ==
    IF ~init \/ Len(vs) = 0 THEN NoMatch
    ELSE LET best == bestOverGroups(vs, dims, groupedKeys(vs), 1, queryVector, NoMatch)
         IN  IF SimPositive(best.similarity) THEN best ELSE NoMatch

findBestMatchAveraged(queryVector) ==
    findBestMatchAveragedIn(vectors, dimensions, isInitialized, queryVector)

\* what getDocs delivers, mapped and filtered as loadFromFirebase does
signDataOf(docs) ==
    SelectSeq([i \in 1..Len(docs) |-> [label |-> docs[i].label, keypoints |-> docs[i].keypoints]],
              LAMBDA d : Len(d.keypoints) > 0)

theStore == [vectors |-> vectors, dimensions |-> dimensions, isInitialized |-> isInitialized]

\* a loadFromFirebase without the test of isInitialized
loadFromFirebaseAgain(store, docs, getDocsFails) ==
    IF getDocsFails
    THEN [store |-> [vectors |-> << >>, dimensions |-> 0, isInitialized |-> FALSE],
          returns |-> 0]
    ELSE IF Len(signDataOf(docs)) > 0
    THEN [store |-> [vectors |-> signDataOf(docs),
                     dimensions |-> Len(signDataOf(docs)[1].keypoints),
                     isInitialized |-> TRUE],
          returns |-> Len(signDataOf(docs))]
    ELSE [store |-> store, returns |-> 0]

\* VectorStore.loadFromFirebase on a store, over the collection docs: the
\* store it leaves and the number it resolves to
loadFromFirebase(store, docs, getDocsFails) ==
    IF store.isInitialized
    THEN [store |-> store, returns |-> Len(store.vectors)]
    ELSE IF getDocsFails
    THEN [store |-> [vectors |-> << >>, dimensions |-> 0, isInitialized |-> FALSE],
          returns |-> 0]
    ELSE IF Len(signDataOf(docs)) > 0
    THEN [store |-> [vectors |-> signDataOf(docs),
                     dimensions |-> Len(signDataOf(docs)[1].keypoints),
                     isInitialized |-> TRUE],
          returns |-> Len(signDataOf(docs))]
    ELSE [store |-> store, returns |-> 0]

\* loadFromFirebase resumed after its await of getDocs: the statements that
\* follow the await, on the store as it is by then
loadFromFirebaseResumed(store, docs, getDocsFails) ==
    IF getDocsFails
    THEN [store |-> [vectors |-> << >>, dimensions |-> 0, isInitialized |-> FALSE],
          returns |-> 0]
    ELSE IF Len(signDataOf(docs)) > 0
    THEN [store |-> [vectors |-> signDataOf(docs),
                     dimensions |-> Len(signDataOf(docs)[1].keypoints),
                     isInitialized |-> TRUE],
          returns |-> Len(signDataOf(docs))]
    ELSE [store |-> store, returns |-> 0]

-----------------------------------------------------------------------------
(* Detection.jsx: the decision of the sampling effect (lines 1075-1131) *)

\* the three tests of the decision on a match
isTargetHand(bestMatch, ht) == Field(bestMatch.label, 1) = ToUpperHand(ht)

isMatchCorrectLetter(bestMatch, letter) == Field(bestMatch.label, 2) = letter

\* what a completed sequence is matched to: the query vector (null when
\* ok = FALSE), the best match of the store, and the target it is held against
matchOf(rawFrames, ht, letter) ==
    LET queryVector == processSequenceToVector(rawFrames)
    IN  [made |-> TRUE,
         queryOk |-> queryVector.ok,
         match |-> IF queryVector.ok
                   THEN findBestMatchAveraged(queryVector.vector)
                   ELSE NoMatch,
         hand |-> ht,
         letter |-> letter]

\* a decision that does not look at the hand side of the match
decideIgnoringHand(d) ==
    IF d.queryOk /\ d.match.found
    THEN IF isMatchCorrectLetter(d.match, d.letter) /\ SimAtLeastThreshold(d.match.similarity)
         THEN [result |-> "true", failureMessage |-> << >>,
               currentScore |-> RoundPercent(d.match.similarity)]
         ELSE [result |-> "false", failureMessage |-> NO_MATCH,
               currentScore |-> RoundPercent(d.match.similarity)]
    ELSE [result |-> "false", failureMessage |-> NO_MATCH, currentScore |-> 0]

\* outcome of one completed sequence d: the values given to setResult,
\* setFailureMessage and setCurrentScore
decide(d) ==
    IF d.queryOk
    THEN IF d.match.found
         THEN LET scorePercent == RoundPercent(d.match.similarity)
                  strong == SimAtLeastThreshold(d.match.similarity)
              IN  IF isTargetHand(d.match, d.hand) /\ isMatchCorrectLetter(d.match, d.letter) /\ strong
                  THEN [result |-> "true", failureMessage |-> << >>,
                        currentScore |-> scorePercent]
                  ELSE IF isTargetHand(d.match, d.hand) /\ strong
                  THEN [result |-> "false",
                        failureMessage |-> WRONG_SIGN_PREFIX \o Field(d.match.label, 2),
                        currentScore |-> scorePercent]
                  ELSE [result |-> "false", failureMessage |-> NO_MATCH,
                        currentScore |-> scorePercent]
         ELSE [result |-> "false", failureMessage |-> NO_MATCH, currentScore |-> 0]
    ELSE [result |-> "false", failureMessage |-> NO_MATCH, currentScore |-> 0]

-----------------------------------------------------------------------------
(* Inputs: what the pose capability, the user and the collection can supply *)

WRIST == << 2, 2, 1 >>

\* a detected hand: 21 landmarks, the wrist first; landmark 2 is displaced by
\* offset from the wrist, the other joints lie on the wrist
HandFrame(offset) ==
    [i \in 1..LANDMARK_COUNT |->
        IF i = 2
        THEN << WRIST[1] + offset[1], WRIST[2] + offset[2], WRIST[3] + offset[3] >>
        ELSE WRIST]

PoseA == HandFrame(<< 1, 3, 0 >>)
PoseB == HandFrame(<< 3, -1, 0 >>)
PoseAMirrored == HandFrame(<< -1, 3, 0 >>)

NoHand == [hand |-> "null", landmarks |-> << >>]

\* per frame: nothing, or one hand with its (already inverted) side label
HandInputs ==
    { NoHand,
      [hand |-> "Right", landmarks |-> PoseA],
      [hand |-> "Right", landmarks |-> PoseB],
      [hand |-> "Left", landmarks |-> PoseA] }

Steady(pose) == [i \in 1..TARGET_FRAME_COUNT |-> pose]

RefDoc(id, hand, symbol, variant, frames) ==
    [id |-> id,
     label |-> Label(hand, << symbol >>, << variant >>),
     keypoints |-> processSequenceToVector(frames).vector]

\* the collections the model starts from
CorpusFull ==
    << RefDoc(1, RIGHT, "A", "1", Steady(PoseA)),
       RefDoc(2, RIGHT, "B", "1", Steady(PoseB)),
       RefDoc(3, LEFT, "A", "1", Steady(PoseAMirrored)),
       RefDoc(4, RIGHT, "A", "2", << PoseA, PoseA, PoseA, PoseA, PoseA, PoseA, PoseB >>) >>

CorpusOnlyA == << RefDoc(1, RIGHT, "A", "1", Steady(PoseA)) >>

CorpusSet == { CorpusFull, CorpusOnlyA, << >> }

\* userName.toUpperCase().split('')
NameSet == { << "A" >>, << "A", "B" >> }

-----------------------------------------------------------------------------
(* Detection.jsx: derived values of a render *)

currentLetter ==
    IF currentLetterIndex + 1 <= Len(processedNameLetters)
    THEN << processedNameLetters[currentLetterIndex + 1] >>
    ELSE << "A" >>

baseLabelOf(ht) == IF ht # "null" THEN ToUpperHand(ht) ELSE RIGHT

baseLabel == baseLabelOf(handType)

\* SignVectorStore.vectors.filter(v => v.label.startsWith(`${baseLabel} ${currentLetter} `)).length
variantsCount(vs, hand, letter) ==
    Len(SelectSeq(vs, LAMBDA v : StartsWith(v.label, hand \o SPACE \o letter \o SPACE)))

targetVariantsCount == variantsCount(vectors, baseLabel, currentLetter)

NoDecision ==
    [made |-> FALSE, queryOk |-> TRUE, match |-> NoMatch, hand |-> "null", letter |-> << >>]

-----------------------------------------------------------------------------
(* Dataset.jsx: constants, strings and the pure helpers *)

TARGET_DURATION_MS == 3000
BASE_FPS == 24
BASE_SAMPLE_RATE == 10

\* camera frame rates, in frames per second
RateSet == { BASE_FPS \div 2, BASE_FPS }

AVERAGE_VERSION_IDENTIFIER == << "A", "V", "E", "R", "A", "G", "E" >>

\* actualFPSRef is kept in millionths of a frame per second
FPS_SCALE == 1000 * 1000

DIGITS == << "0", "1", "2", "3", "4", "5", "6", "7", "8", "9" >>

IsDigit(c) == \E d \in 1..10 : DIGITS[d] = c

DigitValue(c) == (CHOOSE d \in 1..10 : DIGITS[d] = c) - 1

\* `${version}` of a non-negative number
RECURSIVE numberToString(_)
numberToString(n) ==
    IF n < 10 THEN << DIGITS[n + 1] >>
    ELSE Append(numberToString(n \div 10), DIGITS[(n % 10) + 1])

RECURSIVE ParseDigits(_, _, _)
ParseDigits(s, i, acc) ==
    IF i > Len(s) \/ ~IsDigit(s[i]) THEN acc
    ELSE ParseDigits(s, i + 1, acc * 10 + DigitValue(s[i]))

\* parseInt of a field of a label: an optional sign and the leading digits,
\* NaN when there is no digit
parseInt(s) ==
    LET start == IF Len(s) > 0 /\ s[1] \in { "-", "+" } THEN 2 ELSE 1
    IN  IF start > Len(s) \/ ~IsDigit(s[start])
        THEN [isNaN |-> TRUE, value |-> 0]
        ELSE [isNaN |-> FALSE,
              value |-> (IF s[1] = "-" THEN -1 ELSE 1) * ParseDigits(s, start, 0)]

\* String.prototype.toUpperCase, on the letters the inputs use
ToUpperCase(s) ==
    [i \in 1..Len(s) |->
        IF s[i] = "a" THEN "A" ELSE IF s[i] = "b" THEN "B" ELSE s[i]]

\* String.prototype.trim
RECURSIVE Trim(_)
Trim(s) ==
    IF Len(s) = 0 THEN s
    ELSE IF s[1] = " " THEN Trim(Tail(s))
    ELSE IF s[Len(s)] = " " THEN Trim(SubSeq(s, 1, Len(s) - 1))
    ELSE s

\* Dataset.jsx normalizeKeypoints: a frame that has not 21 landmarks, or only
\* zero landmarks, is returned as it is
datasetNormalizeKeypoints(keypoints) ==
    IF Len(keypoints) # LANDMARK_COUNT \/ EveryZero(keypoints)
    THEN keypoints
    ELSE [i \in 1..Len(keypoints) |->
             << keypoints[i][1] - keypoints[1][1],
                keypoints[i][2] - keypoints[1][2],
                keypoints[i][3] - keypoints[1][3] >>]

\* parseFloat(v.toFixed(6)): coordinates are counted in units of 10^-7, so
\* the value is rounded to the nearest multiple of 10, halves away from zero
toFixed6(v) ==
    IF v < 0 THEN -(((-v + 5) \div 10) * 10) ELSE ((v + 5) \div 10) * 10

\* Dataset.jsx flattenKeypoints
datasetFlattenKeypoints(frames) ==
    LET wrapped == [i \in 1..Len(frames) |-> [ok |-> TRUE, frame |-> frames[i]]]
        vector == flattenKeypoints(wrapped)
    IN  [k \in 1..Len(vector) |-> toFixed6(vector[k])]

\* handleStopCapture, steps 1 and 2: framesToProcess aliases the capture
\* buffer, slice() copies it only when it is too long, and the padding is
\* pushed onto whichever array framesToProcess then is
datasetFramesToProcess(buffer) == framesToProcess(buffer)

\* a padding that always pushes TARGET_FRAME_COUNT zero frames
bufferPaddedByN(buffer) ==
    buffer \o [i \in 1..TARGET_FRAME_COUNT |-> ZeroFrame]

\* what captureBufferRef.current holds after the padding
bufferAfterPadding(buffer) ==
    IF Len(buffer) > TARGET_FRAME_COUNT THEN buffer ELSE datasetFramesToProcess(buffer)

\* handleStopCapture, step 3
datasetFinalVector(buffer) ==
    datasetFlattenKeypoints(
        [i \in 1..Len(datasetFramesToProcess(buffer)) |->
            datasetNormalizeKeypoints(datasetFramesToProcess(buffer)[i])])

\* a mirror that negates the x components only
mirrorVectorXOnly(sourceVector) ==
    IF Len(sourceVector) # VECTOR_LENGTH
    THEN sourceVector
    ELSE [k \in 1..Len(sourceVector) |->
             IF k % 3 = 1 THEN toFixed6(-sourceVector[k]) ELSE toFixed6(sourceVector[k])]

\* mirrorVector: a vector of another length is returned as a copy, otherwise
\* every triple (x, y, z) becomes (-x, y, -z), each number through toFixed(6)
mirrorVector(sourceVector) ==
    IF Len(sourceVector) # VECTOR_LENGTH
    THEN sourceVector
    ELSE [k \in 1..Len(sourceVector) |->
             IF k % 3 = 2 THEN toFixed6(sourceVector[k]) ELSE toFixed6(-sourceVector[k])]

\* updateNextVersion: one more than the largest numeric version among the
\* entries whose label starts with `${hand} ${letter}`
RECURSIVE maxVersionFrom(_, _, _, _)
maxVersionFrom(entries, prefix, i, max) ==
    IF i > Len(entries) THEN max
    ELSE LET versionNum == parseInt(Field(entries[i].label, 3))
             current == IF versionNum.isNaN THEN 0 ELSE versionNum.value
         IN  maxVersionFrom(entries, prefix, i + 1,
                IF StartsWith(entries[i].label, prefix) /\ current > max
                THEN current ELSE max)

updateNextVersion(hand, letter, entries) ==
    IF letter = << >> THEN 1
    ELSE maxVersionFrom(entries, hand \o SPACE \o letter, 1, 0) + 1

\* a gap that stays at the base rate
gapFixed(fps) == BASE_SAMPLE_RATE

\* Math.max(1, Math.round(actualFPS * (TARGET_DURATION_MS / 1000) / TARGET_FRAME_COUNT))
gapOf(fps) ==
    LET rounded == (2 * fps * (TARGET_DURATION_MS \div 1000) + TARGET_FRAME_COUNT * FPS_SCALE)
                       \div (2 * TARGET_FRAME_COUNT * FPS_SCALE)
    IN  IF rounded < 1 THEN 1 ELSE rounded

\* an estimate that moves away from the measured rate
smoothedAwayFPS(fps, rate) == (11 * fps - rate * FPS_SCALE + 5) \div 10

\* actualFPS * 0.9 + currentFPS * 0.1, with currentFPS = 1000 / deltaTime
smoothedFPS(fps, rate) == (9 * fps + rate * FPS_SCALE + 5) \div 10

NoParams == [set |-> FALSE, hand |-> << >>, letter |-> << >>, version |-> 0]

NoStopCall == [pc |-> "none", label |-> << >>, keypoints |-> << >>,
               hand |-> << >>, letter |-> << >>]

NotFinalized ==
    [detection |-> [done |-> FALSE, frames |-> << >>, queryOk |-> TRUE,
                    outcome |-> [result |-> "null", failureMessage |-> << >>,
                                 currentScore |-> 0]],
     dataset |-> [done |-> FALSE, frames |-> << >>, vectorLength |-> 0]]

\* no buffer has been handed to the finalization from outside the pages
\* no function has returned yet
NotReturned ==
    [mirrorVector |-> [done |-> FALSE, once |-> << >>, twice |-> << >>],
     findBestMatch |-> [done |-> FALSE, match |-> NoMatch],
     findBestMatchAveraged |-> [done |-> FALSE, match |-> NoMatch],
     loadFromFirebase |-> [calls |-> 0, returns |-> 0]]

NoCall ==
    /\ givenBuffer = << >>
    /\ finalized = NotFinalized
    /\ givenVector = << >>
    /\ returned = NotReturned

\* no handler of the data summary is suspended
NoAsyncCalls ==
    /\ asyncCalls = { }
    /\ callsStarted = 0

\* the Dataset page is not mounted
DatasetUnmounted ==
    /\ isCapturing = FALSE
    /\ captureBuffer = << >>
    /\ timeoutId = 0
    /\ captureFrameCounter = 0
    /\ captureParams = NoParams
    /\ samplesTaken = 0
    /\ actualFPS = BASE_FPS * FPS_SCALE
    /\ targetGap = BASE_SAMPLE_RATE
    /\ currentHand = RIGHT
    /\ letterInput = << >>
    /\ currentVersion = 1
    /\ dataEntries = << >>
    /\ detectedHand = "null"
    /\ isProcessing = FALSE
    /\ status = "initializing"
    /\ stopCall = NoStopCall
    /\ mountFetch = FALSE
    /\ timers = { }
    /\ capturesStarted = 0

-----------------------------------------------------------------------------
(* Detection.jsx: the page *)

InitDetection ==
    /\ page = "detection"
    /\ firestore \in CorpusSet
    /\ vectors = << >>
    /\ dimensions = 0
    /\ isInitialized = FALSE
    /\ processedNameLetters \in NameSet
    /\ currentLetterIndex = 0
    /\ isModelLoading = TRUE
    /\ isWebcamError = FALSE
    /\ isVectorStoreLoading = TRUE
    /\ liveKeypoints = << >>
    /\ handType = "null"
    /\ incomingFrameCounter = 0
    /\ isDetecting = FALSE
    /\ result = "null"
    /\ countdown = COUNTDOWN_START
    /\ currentScore = 0
    /\ failureMessage = << >>
    /\ sequenceBuffer = << >>
    /\ isProcessingSequence = FALSE
    /\ lastAlert = "none"
    /\ lastDecision = NoDecision
    /\ poseChanges = 0
    /\ frameRate \in RateSet
    /\ DatasetUnmounted
    /\ NoCall
    /\ NoAsyncCalls
    /\ docsCreated = Len(firestore)

\* VectorStore.loadFromFirebase, from the await of getDocs on, and the
\* setIsVectorStoreLoading(false) of initVectorStore that follows it
LoadFromFirebaseResolve ==
    /\ page = "detection"
    /\ isVectorStoreLoading
    /\ LET loaded == loadFromFirebase(theStore, firestore, FALSE).store
       IN  /\ vectors' = loaded.vectors
           /\ dimensions' = loaded.dimensions
           /\ isInitialized' = loaded.isInitialized
    /\ isVectorStoreLoading' = FALSE
    /\ UNCHANGED << callVars, manageVars, docsCreated, datasetVars, page, firestore, processedNameLetters, currentLetterIndex,
                    isModelLoading, isWebcamError, liveKeypoints, handType,
                    incomingFrameCounter, isDetecting, result, countdown, currentScore,
                    failureMessage, sequenceBuffer, isProcessingSequence, lastAlert,
                    lastDecision, poseChanges >>

\* the catch branch of loadFromFirebase: getDocs failed
LoadFromFirebaseReject ==
    /\ page = "detection"
    /\ isVectorStoreLoading
    /\ LET loaded == loadFromFirebase(theStore, firestore, TRUE).store
       IN  /\ vectors' = loaded.vectors
           /\ dimensions' = loaded.dimensions
           /\ isInitialized' = loaded.isInitialized
    /\ isVectorStoreLoading' = FALSE
    /\ UNCHANGED << callVars, manageVars, docsCreated, datasetVars, page, firestore, processedNameLetters, currentLetterIndex,
                    isModelLoading, isWebcamError, liveKeypoints, handType,
                    incomingFrameCounter, isDetecting, result, countdown, currentScore,
                    failureMessage, sequenceBuffer, isProcessingSequence, lastAlert,
                    lastDecision, poseChanges >>

\* useMediaPipeHandDetector: camera.start() resolved
CameraStarted ==
    /\ page = "detection"
    /\ isModelLoading
    /\ isModelLoading' = FALSE
    /\ UNCHANGED << callVars, manageVars, docsCreated, datasetVars, page, firestore, storeVars, processedNameLetters, currentLetterIndex,
                    isWebcamError, isVectorStoreLoading, liveKeypoints, handType,
                    incomingFrameCounter, isDetecting, result, countdown, currentScore,
                    failureMessage, sequenceBuffer, isProcessingSequence, lastAlert,
                    lastDecision, poseChanges >>

\* useMediaPipeHandDetector: initialize() or camera.start() rejected
CameraFailed ==
    /\ page = "detection"
    /\ isModelLoading
    /\ isWebcamError' = TRUE
    /\ isModelLoading' = FALSE
    /\ UNCHANGED << callVars, manageVars, docsCreated, datasetVars, page, firestore, storeVars, processedNameLetters, currentLetterIndex,
                    isVectorStoreLoading, liveKeypoints, handType,
                    incomingFrameCounter, isDetecting, result, countdown, currentScore,
                    failureMessage, sequenceBuffer, isProcessingSequence, lastAlert,
                    lastDecision, poseChanges >>

\* a sampling effect that does not wait for the countdown to reach 0
SamplingEffectDuringCountdown(lk, ht, cnt, cd) ==
    IF \/ isModelLoading \/ isWebcamError \/ isVectorStoreLoading
       \/ ~isDetecting \/ ht = "null"
       \/ cnt % SAMPLE_RATE # 0
    THEN UNCHANGED << sequenceBuffer, isProcessingSequence, isDetecting, result,
                      failureMessage, currentScore, lastDecision >>
    ELSE LET keypointsForFrame == IF Len(lk) = LANDMARK_COUNT THEN lk ELSE ZeroFrame
             pushed == IF Len(sequenceBuffer) < TARGET_FRAME_COUNT
                       THEN Append(sequenceBuffer, keypointsForFrame)
                       ELSE sequenceBuffer
         IN  IF Len(pushed) >= TARGET_FRAME_COUNT /\ ~isProcessingSequence
             THEN /\ lastDecision' = matchOf(pushed, ht, currentLetter)
                  /\ sequenceBuffer' = << >>
                  /\ isProcessingSequence' = FALSE
                  /\ isDetecting' = FALSE
                  /\ result' = decide(lastDecision').result
                  /\ failureMessage' = decide(lastDecision').failureMessage
                  /\ currentScore' = decide(lastDecision').currentScore
             ELSE /\ sequenceBuffer' = pushed
                  /\ UNCHANGED << isProcessingSequence, isDetecting, result,
                                  failureMessage, currentScore, lastDecision >>

\* a sampling effect that hands the sequence to the match and keeps it
SamplingEffectKeepsSequence(lk, ht, cnt, cd) ==
    IF \/ isModelLoading \/ isWebcamError \/ isVectorStoreLoading
       \/ ~isDetecting \/ cd > 0 \/ ht = "null"
       \/ cnt % SAMPLE_RATE # 0
    THEN UNCHANGED << sequenceBuffer, isProcessingSequence, isDetecting, result,
                      failureMessage, currentScore, lastDecision >>
    ELSE LET keypointsForFrame == IF Len(lk) = LANDMARK_COUNT THEN lk ELSE ZeroFrame
             pushed == IF Len(sequenceBuffer) < TARGET_FRAME_COUNT
                       THEN Append(sequenceBuffer, keypointsForFrame)
                       ELSE sequenceBuffer
         IN  IF Len(pushed) >= TARGET_FRAME_COUNT /\ ~isProcessingSequence
             THEN /\ lastDecision' = matchOf(pushed, ht, currentLetter)
                  /\ sequenceBuffer' = pushed
                  /\ isProcessingSequence' = FALSE
                  /\ isDetecting' = FALSE
                  /\ result' = decide(lastDecision').result
                  /\ failureMessage' = decide(lastDecision').failureMessage
                  /\ currentScore' = decide(lastDecision').currentScore
             ELSE /\ sequenceBuffer' = pushed
                  /\ UNCHANGED << isProcessingSequence, isDetecting, result,
                                  failureMessage, currentScore, lastDecision >>

\* The sequence sampling and match effect, run after a render in which
\* liveKeypoints = lk, handType = ht, incomingFrameCounter = cnt and
\* countdown = cd.  It sets the buffer and, on a completed sequence, the outcome.
SamplingEffect(lk, ht, cnt, cd) ==
    IF \/ isModelLoading \/ isWebcamError \/ isVectorStoreLoading
       \/ ~isDetecting \/ cd > 0 \/ ht = "null"
       \/ cnt % SAMPLE_RATE # 0
    THEN UNCHANGED << sequenceBuffer, isProcessingSequence, isDetecting, result,
                      failureMessage, currentScore, lastDecision >>
    ELSE LET keypointsForFrame == IF Len(lk) = LANDMARK_COUNT THEN lk ELSE ZeroFrame
             pushed == IF Len(sequenceBuffer) < TARGET_FRAME_COUNT
                       THEN Append(sequenceBuffer, keypointsForFrame)
                       ELSE sequenceBuffer
         IN  IF Len(pushed) >= TARGET_FRAME_COUNT /\ ~isProcessingSequence
             THEN /\ lastDecision' = matchOf(pushed, ht, currentLetter)
                  /\ sequenceBuffer' = << >>
                  /\ isProcessingSequence' = FALSE
                  /\ isDetecting' = FALSE
                  /\ result' = decide(lastDecision').result
                  /\ failureMessage' = decide(lastDecision').failureMessage
                  /\ currentScore' = decide(lastDecision').currentScore
             ELSE /\ sequenceBuffer' = pushed
                  /\ UNCHANGED << isProcessingSequence, isDetecting, result,
                                  failureMessage, currentScore, lastDecision >>

\* One camera frame: onFrame counts it, onResults publishes the landmarks and
\* the hand type, and the render that follows runs the sampling effect.
\* incomingFrameCounter is kept modulo SAMPLE_RATE, the only way it is read.
Frame(input) ==
    /\ page = "detection"
    /\ ~isModelLoading /\ ~isWebcamError
    /\ \/ input.hand = handType /\ input.landmarks = liveKeypoints /\ poseChanges' = poseChanges
       \/ /\ ~(input.hand = handType /\ input.landmarks = liveKeypoints)
          /\ poseChanges < MaxPoseChanges
          /\ poseChanges' = poseChanges + 1
    /\ incomingFrameCounter' = (incomingFrameCounter + 1) % SAMPLE_RATE
    /\ liveKeypoints' = input.landmarks
    /\ handType' = input.hand
    /\ SamplingEffect(input.landmarks, input.hand, incomingFrameCounter + 1, countdown)
    /\ UNCHANGED << callVars, manageVars, docsCreated, datasetVars, page, firestore, storeVars, processedNameLetters, currentLetterIndex,
                    isModelLoading, isWebcamError, isVectorStoreLoading, countdown,
                    lastAlert >>

\* The countdown effect: one tick of its 1 s interval; the render with the new
\* countdown runs the sampling effect.
CountdownTick ==
    /\ page = "detection"
    /\ isDetecting /\ countdown # 0
    /\ countdown' = IF countdown <= 1 THEN 0 ELSE countdown - 1
    /\ SamplingEffect(liveKeypoints, handType, incomingFrameCounter, countdown')
    /\ UNCHANGED << callVars, manageVars, docsCreated, datasetVars, page, firestore, storeVars, processedNameLetters, currentLetterIndex,
                    isModelLoading, isWebcamError, isVectorStoreLoading, liveKeypoints,
                    handType, incomingFrameCounter, lastAlert, poseChanges >>

\* handleDetectionAction, result === true, last letter: navigate('/result')
ActionSeeResults ==
    /\ page = "detection"
    /\ result = "true"
    /\ currentLetterIndex = Len(processedNameLetters) - 1
    /\ page' = "result"
    /\ UNCHANGED << firestore, docsCreated, storeVars, detectionVars, datasetVars,
                    sharedVars, callVars, manageVars >>

\* a Next action that does not ask whether the letter was the last one
ActionNextLetterPastEnd ==
    /\ page = "detection"
    /\ result = "true"
    /\ currentLetterIndex' = currentLetterIndex + 1
    /\ result' = "null"
    /\ currentScore' = 0
    /\ failureMessage' = << >>
    /\ isDetecting' = TRUE
    /\ countdown' = COUNTDOWN_START
    /\ lastAlert' = "none"
    /\ lastDecision' = NoDecision
    /\ UNCHANGED << callVars, manageVars, docsCreated, datasetVars, page, firestore, storeVars, processedNameLetters, isModelLoading,
                    isWebcamError, isVectorStoreLoading, liveKeypoints, handType,
                    incomingFrameCounter, sequenceBuffer, isProcessingSequence,
                    poseChanges >>

\* handleDetectionAction, result === true: the next letter
ActionNextLetter ==
    /\ page = "detection"
    /\ result = "true"
    /\ currentLetterIndex # Len(processedNameLetters) - 1
    /\ currentLetterIndex' = currentLetterIndex + 1
    /\ result' = "null"
    /\ currentScore' = 0
    /\ failureMessage' = << >>
    /\ isDetecting' = TRUE
    /\ countdown' = COUNTDOWN_START
    /\ lastAlert' = "none"
    /\ lastDecision' = NoDecision
    /\ UNCHANGED << callVars, manageVars, docsCreated, datasetVars, page, firestore, storeVars, processedNameLetters, isModelLoading,
                    isWebcamError, isVectorStoreLoading, liveKeypoints, handType,
                    incomingFrameCounter, sequenceBuffer, isProcessingSequence,
                    poseChanges >>

\* a button that stays locked while a failure is shown
ButtonLockedAfterFailure ==
    \/ result = "true"
    \/ ~(isDetecting \/ isModelLoading \/ isWebcamError \/ isVectorStoreLoading
         \/ result = "false")

\* the button is clickable: AnimatedButton's disabled && !isSuccess is false
ButtonEnabled ==
    \/ result = "true"
    \/ ~(\/ isDetecting \/ isModelLoading \/ isWebcamError \/ isVectorStoreLoading
         \/ (Len(liveKeypoints) = 0 /\ result = "false" /\ failureMessage = TIMEOUT))

\* handleDetectionAction, result null or false: the guards of Start / Try Again
StartRefusal ==
    IF isModelLoading \/ isDetecting \/ isWebcamError \/ isVectorStoreLoading THEN "busy"
    ELSE IF Len(vectors) = 0 THEN "store_empty"
    ELSE IF targetVariantsCount = 0 THEN "no_entries"
    ELSE "none"

\* handleDetectionAction, Start / Try Again, refused with an alert
ActionStartRefused ==
    /\ page = "detection"
    /\ ButtonEnabled
    /\ result # "true"
    /\ StartRefusal \in { "store_empty", "no_entries" }
    /\ lastAlert' = StartRefusal
    /\ UNCHANGED << callVars, manageVars, docsCreated, datasetVars, page, firestore, storeVars, processedNameLetters, currentLetterIndex,
                    isModelLoading, isWebcamError, isVectorStoreLoading, liveKeypoints,
                    handType, incomingFrameCounter, isDetecting, result, countdown,
                    currentScore, failureMessage, sequenceBuffer, isProcessingSequence,
                    lastDecision, poseChanges >>

\* handleDetectionAction, Start / Try Again: a new attempt
ActionStart ==
    /\ page = "detection"
    /\ ButtonEnabled
    /\ result # "true"
    /\ StartRefusal = "none"
    /\ result' = "null"
    /\ failureMessage' = << >>
    /\ sequenceBuffer' = << >>
    /\ isProcessingSequence' = FALSE
    /\ isDetecting' = TRUE
    /\ countdown' = COUNTDOWN_START
    /\ lastAlert' = "none"
    /\ lastDecision' = NoDecision
    /\ UNCHANGED << callVars, manageVars, docsCreated, datasetVars, page, firestore, storeVars, processedNameLetters, currentLetterIndex,
                    isModelLoading, isWebcamError, isVectorStoreLoading, liveKeypoints,
                    handType, incomingFrameCounter, currentScore, poseChanges >>

NextDetection ==
    \/ LoadFromFirebaseResolve
    \/ LoadFromFirebaseReject
    \/ CameraStarted
    \/ CameraFailed
    \/ \E input \in HandInputs : Frame(input)
    \/ CountdownTick
    \/ ActionSeeResults
    \/ ActionNextLetter
    \/ ActionStartRefused
    \/ ActionStart

-----------------------------------------------------------------------------
(* Dataset.jsx: the page *)

DatasetPose == HandFrame(<< 14, 26, -5 >>)

DatasetInputs ==
    { NoHand, [hand |-> "Right", landmarks |-> DatasetPose] }

\* what the user types into the Letter/Sign field
LetterTexts == { << >>, << "a", " " >> }

DetectionUnmounted ==
    /\ processedNameLetters = << >>
    /\ currentLetterIndex = 0
    /\ isModelLoading = TRUE
    /\ isWebcamError = FALSE
    /\ isVectorStoreLoading = TRUE
    /\ liveKeypoints = << >>
    /\ handType = "null"
    /\ incomingFrameCounter = 0
    /\ isDetecting = FALSE
    /\ result = "null"
    /\ countdown = COUNTDOWN_START
    /\ currentScore = 0
    /\ failureMessage = << >>
    /\ sequenceBuffer = << >>
    /\ isProcessingSequence = FALSE
    /\ lastDecision = NoDecision

\* the Dataset page after construction, over one of the given collections
InitDatasetOver(corpora) ==
    /\ page = "dataset"
    /\ firestore \in corpora
    /\ vectors = << >>
    /\ dimensions = 0
    /\ isInitialized = FALSE
    /\ DetectionUnmounted
    /\ lastAlert = "none"
    /\ poseChanges = 0
    /\ isCapturing = FALSE
    /\ captureBuffer = << >>
    /\ timeoutId = 0
    /\ captureFrameCounter = 0
    /\ captureParams = NoParams
    /\ samplesTaken = 0
    /\ actualFPS = BASE_FPS * FPS_SCALE
    /\ targetGap = BASE_SAMPLE_RATE
    /\ currentHand = RIGHT
    /\ letterInput = << >>
    /\ currentVersion = 1
    /\ dataEntries = << >>
    /\ detectedHand = "null"
    /\ isProcessing = FALSE
    /\ status = "initializing"
    /\ stopCall = NoStopCall
    /\ mountFetch = TRUE
    /\ timers = { }
    /\ frameRate \in RateSet
    /\ capturesStarted = 0
    /\ NoCall
    /\ NoAsyncCalls
    /\ docsCreated = Len(firestore)

InitDataset == InitDatasetOver({ << >>, CorpusOnlyA })

trimmedLetter == Trim(ToUpperCase(letterInput))

\* dataEntries.some(e => e.label === `${currentHand} ${trimmedLetter} AVERAGE`)
averageVectorExists ==
    \E i \in 1..Len(dataEntries) :
        dataEntries[i].label = Label(currentHand, trimmedLetter, AVERAGE_VERSION_IDENTIFIER)

isButtonDisabled ==
    isCapturing \/ isProcessing \/ trimmedLetter = << >> \/ averageVectorExists

\* the effect on [currentHand, currentLetter, dataEntries], for the values of
\* the render it follows
versionEffect(hand, letter, entries) ==
    updateNextVersion(hand, Trim(ToUpperCase(letter)), entries)

\* the mount effect's fetchTotalEntries: getDocs resolved
MountFetchResolve ==
    /\ page = "dataset"
    /\ mountFetch
    /\ mountFetch' = FALSE
    /\ dataEntries' = firestore
    /\ currentVersion' = versionEffect(currentHand, letterInput, firestore)
    /\ UNCHANGED << callVars, manageVars, docsCreated, page, firestore, storeVars, detectionVars, sharedVars,
                    isCapturing, captureBuffer, timeoutId, captureFrameCounter,
                    captureParams, samplesTaken, actualFPS, targetGap, currentHand,
                    letterInput, detectedHand, isProcessing, status, stopCall, timers,
                    frameRate, capturesStarted >>

\* the mount effect's fetchTotalEntries: getDocs rejected
MountFetchReject ==
    /\ page = "dataset"
    /\ mountFetch
    /\ mountFetch' = FALSE
    /\ status' = "fetch_error"
    /\ UNCHANGED << callVars, manageVars, docsCreated, page, firestore, storeVars, detectionVars, sharedVars,
                    isCapturing, captureBuffer, timeoutId, captureFrameCounter,
                    captureParams, samplesTaken, actualFPS, targetGap, currentHand,
                    letterInput, currentVersion, dataEntries, detectedHand, isProcessing,
                    stopCall, timers, frameRate, capturesStarted >>

\* onChange of the Letter/Sign field, and the version effect of the render
SetCurrentLetter(text) ==
    /\ page = "dataset"
    /\ ~isCapturing /\ ~isProcessing
    /\ ToUpperCase(text) # letterInput
    /\ letterInput' = ToUpperCase(text)
    /\ currentVersion' = versionEffect(currentHand, letterInput', dataEntries)
    /\ UNCHANGED << callVars, manageVars, docsCreated, page, firestore, storeVars, detectionVars, sharedVars,
                    isCapturing, captureBuffer, timeoutId, captureFrameCounter,
                    captureParams, samplesTaken, actualFPS, targetGap, currentHand,
                    dataEntries, detectedHand, isProcessing, status, stopCall,
                    mountFetch, timers, frameRate, capturesStarted >>

\* onChange of the Hand select, and the version effect of the render
SetCurrentHand(hand) ==
    /\ page = "dataset"
    /\ ~isCapturing /\ ~isProcessing
    /\ hand # currentHand
    /\ currentHand' = hand
    /\ currentVersion' = versionEffect(hand, letterInput, dataEntries)
    /\ UNCHANGED << callVars, manageVars, docsCreated, page, firestore, storeVars, detectionVars, sharedVars,
                    isCapturing, captureBuffer, timeoutId, captureFrameCounter,
                    captureParams, samplesTaken, actualFPS, targetGap, letterInput,
                    dataEntries, detectedHand, isProcessing, status, stopCall,
                    mountFetch, timers, frameRate, capturesStarted >>

\* handleStartCapture, the user having answered the confirm() with proceed,
\* in a session of at most limit captures
StartCapture(proceed, limit) ==
    /\ page = "dataset"
    /\ ~isButtonDisabled
    /\ capturesStarted < limit
    /\ IF detectedHand # "null" /\ ToUpperHand(detectedHand) # currentHand /\ ~proceed
       THEN /\ lastAlert' = "declined"
            /\ lastAlert # "declined"
            /\ UNCHANGED << captureParams, isCapturing, captureBuffer, captureFrameCounter,
                            samplesTaken, targetGap, status, timeoutId, timers,
                            capturesStarted >>
       ELSE /\ proceed
            /\ lastAlert' = "none"
            /\ captureParams' = [set |-> TRUE, hand |-> currentHand,
                                 letter |-> trimmedLetter, version |-> currentVersion]
            /\ isCapturing' = TRUE
            /\ captureBuffer' = << >>
            /\ captureFrameCounter' = 0
            /\ samplesTaken' = 0
            /\ targetGap' = BASE_SAMPLE_RATE
            /\ status' = "recording"
            /\ capturesStarted' = capturesStarted + 1
            /\ timeoutId' = capturesStarted + 1
            /\ timers' = timers \cup { [id |-> capturesStarted + 1, age |-> 0,
                                        hand |-> currentHand, letter |-> letterInput] }
    /\ UNCHANGED << callVars, manageVars, docsCreated, page, firestore, storeVars, detectionVars, poseChanges,
                    actualFPS, currentHand, letterInput, currentVersion, dataEntries,
                    detectedHand, isProcessing, stopCall, mountFetch, frameRate >>

\* the Start Capture button
HandleStartCapture(proceed) == StartCapture(proceed, MaxCaptures)

\* a stop that leaves the 3 s timer of the capture armed
StopCaptureSyncKeepsTimer(buffer, tms, hand, letter) ==
    /\ isCapturing' = FALSE
    /\ timers' = tms
    /\ timeoutId' = 0
    /\ IF ~captureParams.set \/ captureParams.letter = << >>
       THEN /\ status' = "params_missing"
            /\ captureBuffer' = << >>
            /\ isProcessing' = FALSE
            /\ stopCall' = NoStopCall
       ELSE IF Len(datasetFinalVector(buffer)) # VECTOR_LENGTH
       THEN /\ status' = "size_mismatch"
            /\ captureBuffer' = << >>
            /\ isProcessing' = FALSE
            /\ stopCall' = NoStopCall
       ELSE /\ status' = "processing"
            /\ captureBuffer' = bufferAfterPadding(buffer)
            /\ isProcessing' = TRUE
            /\ stopCall' = [pc |-> "addDoc",
                            label |-> Label(captureParams.hand, captureParams.letter,
                                            numberToString(captureParams.version)),
                            keypoints |-> datasetFinalVector(buffer),
                            hand |-> hand, letter |-> letter]

\* handleStopCapture up to its first await, for a call that finds the capture
\* running: buffer and tms are the capture buffer and the timers at the call,
\* hand and letter the currentHand and currentLetter of the calling closure
StopCaptureSync(buffer, tms, hand, letter) ==
    /\ isCapturing' = FALSE
    /\ timers' = { t \in tms : t.id # timeoutId }
    /\ timeoutId' = 0
    /\ IF ~captureParams.set \/ captureParams.letter = << >>
       THEN /\ status' = "params_missing"
            /\ captureBuffer' = << >>
            /\ isProcessing' = FALSE
            /\ stopCall' = NoStopCall
       ELSE IF Len(datasetFinalVector(buffer)) # VECTOR_LENGTH
       THEN /\ status' = "size_mismatch"
            /\ captureBuffer' = << >>
            /\ isProcessing' = FALSE
            /\ stopCall' = NoStopCall
       ELSE /\ status' = "processing"
            /\ captureBuffer' = bufferAfterPadding(buffer)
            /\ isProcessing' = TRUE
            /\ stopCall' = [pc |-> "addDoc",
                            label |-> Label(captureParams.hand, captureParams.letter,
                                            numberToString(captureParams.version)),
                            keypoints |-> datasetFinalVector(buffer),
                            hand |-> hand, letter |-> letter]

\* onResults, lines 448-451 and 466-470: a sample is pushed only while the
\* capture buffer is shorter than TARGET_FRAME_COUNT
pushSample(buffer, frame) ==
    IF Len(buffer) < TARGET_FRAME_COUNT THEN Append(buffer, frame) ELSE buffer

\* onResults of the Dataset page: one frame of the pose capability.  The
\* handler was registered by the mount effect, so the handleStopCapture it
\* calls closes over the first render: currentHand 'RIGHT', currentLetter ''.
DatasetOnResults(input) ==
    /\ page = "dataset"
    /\ isCapturing \/ captureFrameCounter < MaxIdleFrames
    /\ \A t \in timers :
          t.age < (TARGET_DURATION_MS \div 1000) * frameRate + MaxLateFrames
    /\ \/ input.hand = detectedHand /\ poseChanges' = poseChanges
       \/ /\ input.hand # detectedHand
          /\ poseChanges < MaxPoseChanges
          /\ poseChanges' = poseChanges + 1
    /\ LET recompute ==
               /\ isCapturing
               /\ captureFrameCounter < ((BASE_FPS * TARGET_DURATION_MS) \div 1000) * 2
           fps == IF recompute THEN smoothedFPS(actualFPS, frameRate) ELSE actualFPS
           gap == IF recompute THEN gapOf(fps) ELSE targetGap
           counter == captureFrameCounter + 1
           isSampleFrame == counter % gap = 0
           handDetected == input.hand # "null"
           pushed == IF isCapturing /\ isSampleFrame
                     THEN pushSample(captureBuffer,
                                     IF handDetected THEN input.landmarks ELSE ZeroFrame)
                     ELSE captureBuffer
           aged == { [t EXCEPT !.age = @ + 1] : t \in timers }
       IN  /\ actualFPS' = fps
           /\ targetGap' = gap
           /\ captureFrameCounter' = counter
           /\ detectedHand' = input.hand
           /\ samplesTaken' = IF Len(pushed) > Len(captureBuffer)
                              THEN samplesTaken + 1 ELSE samplesTaken
           /\ IF handDetected /\ isCapturing /\ isSampleFrame
                 /\ Len(pushed) >= TARGET_FRAME_COUNT
              THEN StopCaptureSync(pushed, aged, RIGHT, << >>)
              ELSE /\ captureBuffer' = pushed
                   /\ timers' = aged
                   /\ UNCHANGED << isCapturing, timeoutId, isProcessing, status, stopCall >>
    /\ UNCHANGED << callVars, manageVars, docsCreated, page, firestore, storeVars, detectionVars, lastAlert,
                    captureParams, currentHand, letterInput, currentVersion, dataEntries,
                    mountFetch, frameRate, capturesStarted >>

\* the 3 s timer of a capture fires: handleStopCapture of the render in which
\* Start was clicked
CaptureTimeout ==
    /\ page = "dataset"
    /\ \E t \in timers :
          /\ t.age >= (TARGET_DURATION_MS \div 1000) * frameRate
          /\ IF isCapturing
             THEN StopCaptureSync(captureBuffer, timers \ { t }, t.hand, t.letter)
             ELSE /\ timers' = timers \ { t }
                  /\ UNCHANGED << isCapturing, timeoutId, status, captureBuffer,
                                  isProcessing, stopCall >>
    /\ UNCHANGED << callVars, manageVars, docsCreated, page, firestore, storeVars, detectionVars, sharedVars,
                    captureFrameCounter, captureParams, samplesTaken, actualFPS,
                    targetGap, currentHand, letterInput, currentVersion, dataEntries,
                    detectedHand, mountFetch, frameRate, capturesStarted >>

\* the last statements of handleStopCapture (lines 574-578)
StopCaptureTail ==
    /\ captureBuffer' = << >>
    /\ samplesTaken' = 0
    /\ captureFrameCounter' = 0
    /\ targetGap' = BASE_SAMPLE_RATE
    /\ isProcessing' = FALSE
    /\ stopCall' = NoStopCall

\* handleStopCapture: addDoc resolved, the call now awaits fetchTotalEntries
AddDocResolve ==
    /\ page = "dataset"
    /\ stopCall.pc = "addDoc"
    /\ firestore' = Append(firestore, [id |-> docsCreated + 1,
                                       label |-> stopCall.label,
                                       keypoints |-> stopCall.keypoints])
    /\ docsCreated' = docsCreated + 1
    /\ stopCall' = [stopCall EXCEPT !.pc = "fetch"]
    /\ UNCHANGED << callVars, manageVars, page, storeVars, detectionVars, sharedVars,
                    isCapturing, captureBuffer, timeoutId, captureFrameCounter,
                    captureParams, samplesTaken, actualFPS, targetGap, currentHand,
                    letterInput, currentVersion, dataEntries, detectedHand, isProcessing,
                    status, mountFetch, timers, frameRate, capturesStarted >>

\* handleStopCapture: addDoc rejected, the catch block and the last statements
AddDocReject ==
    /\ page = "dataset"
    /\ stopCall.pc = "addDoc"
    /\ status' = "save_error"
    /\ StopCaptureTail
    /\ UNCHANGED << callVars, manageVars, docsCreated, page, firestore, storeVars, detectionVars, sharedVars,
                    isCapturing, timeoutId, captureParams, actualFPS, currentHand,
                    letterInput, currentVersion, dataEntries, detectedHand,
                    mountFetch, timers, frameRate, capturesStarted >>

\* handleStopCapture: fetchTotalEntries resolved.  updateNextVersion runs with
\* the closure's hand and letter; the render that follows has new dataEntries,
\* so the version effect runs after it with the current hand and letter.
StopFetchResolve ==
    /\ page = "dataset"
    /\ stopCall.pc = "fetch"
    /\ dataEntries' = firestore
    /\ currentVersion' = versionEffect(currentHand, letterInput, firestore)
    /\ status' = "saved"
    /\ StopCaptureTail
    /\ UNCHANGED << callVars, manageVars, docsCreated, page, firestore, storeVars, detectionVars, sharedVars,
                    isCapturing, timeoutId, captureParams, actualFPS, currentHand,
                    letterInput, detectedHand, mountFetch, timers, frameRate,
                    capturesStarted >>

\* handleStopCapture: fetchTotalEntries caught a rejection and returned [].
\* dataEntries keeps its value, so no version effect follows.
StopFetchReject ==
    /\ page = "dataset"
    /\ stopCall.pc = "fetch"
    /\ currentVersion' = versionEffect(stopCall.hand, stopCall.letter, << >>)
    /\ status' = "saved"
    /\ StopCaptureTail
    /\ UNCHANGED << callVars, manageVars, docsCreated, page, firestore, storeVars, detectionVars, sharedVars,
                    isCapturing, timeoutId, captureParams, actualFPS, currentHand,
                    letterInput, dataEntries, detectedHand, mountFetch, timers,
                    frameRate, capturesStarted >>

NextDataset ==
    \/ MountFetchResolve
    \/ MountFetchReject
    \/ \E text \in LetterTexts : SetCurrentLetter(text)
    \/ \E hand \in { RIGHT, LEFT } : SetCurrentHand(hand)
    \/ \E proceed \in BOOLEAN : HandleStartCapture(proceed)
    \/ \E input \in DatasetInputs : DatasetOnResults(input)
    \/ CaptureTimeout
    \/ AddDocResolve
    \/ AddDocReject
    \/ StopFetchResolve
    \/ StopFetchReject

\* a session of repeated captures of one sign into an empty collection
InitRecapture == InitDatasetOver({ << >> })

NextRecapture ==
    \/ MountFetchResolve
    \/ \E text \in LetterTexts : SetCurrentLetter(text)
    \/ \E proceed \in BOOLEAN : StartCapture(proceed, MaxRecaptures)
    \/ \E input \in DatasetInputs : DatasetOnResults(input)
    \/ CaptureTimeout
    \/ AddDocResolve
    \/ AddDocReject
    \/ StopFetchResolve
    \/ StopFetchReject

-----------------------------------------------------------------------------
(* Dataset.jsx: the average, mirror and delete handlers of the data summary *)

\* e.label.startsWith(`${hand} ${letter}`) && !isNaN(parseInt(e.label.split(' ')[2]))
individualVectorsOf(entries, hand, letter) ==
    SelectSeq(entries, LAMBDA e :
        /\ StartsWith(e.label, hand \o SPACE \o letter)
        /\ ~parseInt(Field(e.label, 3)).isNaN)

individualVectorCount == Len(individualVectorsOf(dataEntries, currentHand, trimmedLetter))

showAverageButton == individualVectorCount > 0 /\ ~averageVectorExists

\* parseFloat((sum / numVectors).toFixed(6))
toFixed6Of(sum, numVectors) ==
    LET rounded == ((Abs(sum) + 5 * numVectors) \div (10 * numVectors)) * 10
    IN  IF sum < 0 THEN -rounded ELSE rounded

\* avgVector of handleCalculateAndStoreAverage, for vectors of at most
\* VECTOR_LENGTH components: a vector adds its components where it has them
avgVectorOf(individualVectors) ==
    [i \in 1..VECTOR_LENGTH |->
        toFixed6Of(
            SumTo([v \in 1..Len(individualVectors) |->
                      IF i <= Len(individualVectors[v].keypoints)
                      THEN individualVectors[v].keypoints[i] ELSE 0],
                  Len(individualVectors)),
            Len(individualVectors))]

\* targetLabel of handleMirrorEntry
targetLabelOf(label) ==
    Label(IF Field(label, 1) = RIGHT THEN LEFT ELSE RIGHT, Field(label, 2), Field(label, 3))

\* mirroredLabel of the table row, which decides whether Mirror is enabled
mirroredLabelOf(label) ==
    Label(IF StartsWith(label, RIGHT) THEN LEFT ELSE RIGHT, Field(label, 2), Field(label, 3))

labelExists(entries, label) == \E i \in 1..Len(entries) : entries[i].label = label

\* a handler call that is suspended at its awaited write
AsyncCall(op, label, keypoints, id) ==
    [n |-> callsStarted + 1, op |-> op, pc |-> "write", label |-> label,
     keypoints |-> keypoints, id |-> id, hand |-> currentHand, letter |-> letterInput]

\* handleCalculateAndStoreAverage up to the await of addDoc, from the button
\* that is rendered while showAverageButton holds
HandleCalculateAndStoreAverage ==
    /\ page = "dataset"
    /\ showAverageButton /\ ~isProcessing
    /\ callsStarted < MaxCalls
    /\ LET signKey == currentHand \o SPACE \o trimmedLetter
           individualVectors == individualVectorsOf(dataEntries, currentHand, trimmedLetter)
       IN  asyncCalls' = asyncCalls \cup
               { AsyncCall("average", signKey \o SPACE \o AVERAGE_VERSION_IDENTIFIER,
                           avgVectorOf(individualVectors), 0) }
    /\ callsStarted' = callsStarted + 1
    /\ status' = "averaging"
    /\ lastAlert' = "none"
    /\ UNCHANGED << callVars, docsCreated, page, firestore, storeVars, detectionVars,
                    poseChanges, isCapturing, captureBuffer, timeoutId,
                    captureFrameCounter, captureParams, samplesTaken, actualFPS,
                    targetGap, currentHand, letterInput, currentVersion, dataEntries,
                    detectedHand, isProcessing, stopCall, mountFetch, timers, frameRate,
                    capturesStarted >>

\* the Mirror button of the row of dataEntries[i], the confirm() accepted:
\* handleMirrorEntry up to the await of addDoc
HandleMirrorEntry(i) ==
    /\ page = "dataset"
    /\ i \in 1..Len(dataEntries)
    /\ ~isCapturing /\ ~isProcessing
    /\ ~labelExists(dataEntries, mirroredLabelOf(dataEntries[i].label))
    /\ callsStarted < MaxCalls
    /\ LET entry == dataEntries[i]
           targetLabel == targetLabelOf(entry.label)
       IN  asyncCalls' = asyncCalls \cup
               { IF labelExists(dataEntries, targetLabel)
                 THEN [AsyncCall("mirror", targetLabel, << >>, 0) EXCEPT !.pc = "fetch"]
                 ELSE AsyncCall("mirror", targetLabel, mirrorVector(entry.keypoints), 0) }
    /\ callsStarted' = callsStarted + 1
    /\ lastAlert' = "confirmed"
    /\ UNCHANGED << callVars, docsCreated, page, firestore, storeVars, detectionVars,
                    poseChanges, isCapturing, captureBuffer, timeoutId,
                    captureFrameCounter, captureParams, samplesTaken, actualFPS,
                    targetGap, currentHand, letterInput, currentVersion, dataEntries,
                    detectedHand, isProcessing, status, stopCall, mountFetch, timers,
                    frameRate, capturesStarted >>

\* the Delete button of the row of dataEntries[i], the confirm() accepted:
\* handleDeleteEntry up to the await of deleteDoc
HandleDeleteEntry(i) ==
    /\ page = "dataset"
    /\ i \in 1..Len(dataEntries)
    /\ ~isCapturing /\ ~isProcessing
    /\ callsStarted < MaxCalls
    /\ asyncCalls' = asyncCalls \cup
           { AsyncCall("delete", dataEntries[i].label, << >>, dataEntries[i].id) }
    /\ callsStarted' = callsStarted + 1
    /\ status' = "deleting"
    /\ lastAlert' = "confirmed"
    /\ UNCHANGED << callVars, docsCreated, page, firestore, storeVars, detectionVars,
                    poseChanges, isCapturing, captureBuffer, timeoutId,
                    captureFrameCounter, captureParams, samplesTaken, actualFPS,
                    targetGap, currentHand, letterInput, currentVersion, dataEntries,
                    detectedHand, isProcessing, stopCall, mountFetch, timers, frameRate,
                    capturesStarted >>

\* addDoc or deleteDoc of call c resolved: the call goes on to fetchTotalEntries
WriteResolve(c) ==
    /\ page = "dataset"
    /\ c \in asyncCalls /\ c.pc = "write"
    /\ IF c.op = "delete"
       THEN /\ firestore' = SelectSeq(firestore, LAMBDA e : e.id # c.id)
            /\ docsCreated' = docsCreated
       ELSE /\ firestore' = Append(firestore, [id |-> docsCreated + 1,
                                               label |-> c.label,
                                               keypoints |-> c.keypoints])
            /\ docsCreated' = docsCreated + 1
    /\ asyncCalls' = (asyncCalls \ { c }) \cup { [c EXCEPT !.pc = "fetch"] }
    /\ UNCHANGED << callVars, callsStarted, page, storeVars, detectionVars, sharedVars,
                    datasetVars >>

\* addDoc or deleteDoc of call c rejected: the catch block of the handler; the
\* Mirror button goes on to fetchTotalEntries all the same
WriteReject(c) ==
    /\ page = "dataset"
    /\ c \in asyncCalls /\ c.pc = "write"
    /\ IF c.op = "mirror"
       THEN /\ asyncCalls' = (asyncCalls \ { c }) \cup { [c EXCEPT !.pc = "fetch"] }
            /\ status' = status
       ELSE /\ asyncCalls' = asyncCalls \ { c }
            /\ status' = IF c.op = "average" THEN "save_error" ELSE "delete_error"
    /\ UNCHANGED << callVars, callsStarted, docsCreated, page, firestore, storeVars,
                    detectionVars, sharedVars, isCapturing, captureBuffer, timeoutId,
                    captureFrameCounter, captureParams, samplesTaken, actualFPS,
                    targetGap, currentHand, letterInput, currentVersion, dataEntries,
                    detectedHand, isProcessing, stopCall, mountFetch, timers, frameRate,
                    capturesStarted >>

\* fetchTotalEntries of call c resolved: setDataEntries, the handler's last
\* statements, and the version effect of the render that follows
FetchResolve(c) ==
    /\ page = "dataset"
    /\ c \in asyncCalls /\ c.pc = "fetch"
    /\ asyncCalls' = asyncCalls \ { c }
    /\ dataEntries' = firestore
    /\ currentVersion' = versionEffect(currentHand, letterInput, firestore)
    /\ status' = IF c.op = "average" THEN "average_saved"
                 ELSE IF c.op = "delete" THEN "deleted"
                 ELSE status
    /\ UNCHANGED << callVars, callsStarted, docsCreated, page, firestore, storeVars,
                    detectionVars, sharedVars, isCapturing, captureBuffer, timeoutId,
                    captureFrameCounter, captureParams, samplesTaken, actualFPS,
                    targetGap, currentHand, letterInput, detectedHand, isProcessing,
                    stopCall, mountFetch, timers, frameRate, capturesStarted >>

\* fetchTotalEntries of call c caught a rejection and returned []: dataEntries
\* keeps its value, and handleDeleteEntry calls updateNextVersion with the
\* hand and letter of its closure
FetchReject(c) ==
    /\ page = "dataset"
    /\ c \in asyncCalls /\ c.pc = "fetch"
    /\ asyncCalls' = asyncCalls \ { c }
    /\ currentVersion' = IF c.op = "delete"
                         THEN versionEffect(c.hand, c.letter, << >>)
                         ELSE currentVersion
    /\ status' = IF c.op = "average" THEN "average_saved"
                 ELSE IF c.op = "delete" THEN "deleted"
                 ELSE "fetch_error"
    /\ UNCHANGED << callVars, callsStarted, docsCreated, page, firestore, storeVars,
                    detectionVars, sharedVars, isCapturing, captureBuffer, timeoutId,
                    captureFrameCounter, captureParams, samplesTaken, actualFPS,
                    targetGap, currentHand, letterInput, dataEntries, detectedHand,
                    isProcessing, stopCall, mountFetch, timers, frameRate,
                    capturesStarted >>

\* a stored vector that lacks its last landmark
ShortVector == SubSeq(datasetFinalVector(Steady(DatasetPose)), 1, VECTOR_LENGTH - 3)

\* a collection with two variants of RIGHT A, one of RIGHT AB, and an entry
\* RIGHT B whose vector has not VECTOR_LENGTH components
CorpusManaged ==
    << [id |-> 1, label |-> Label(RIGHT, << "A" >>, << "1" >>),
        keypoints |-> datasetFinalVector(Steady(DatasetPose))],
       [id |-> 2, label |-> Label(RIGHT, << "A" >>, << "2" >>),
        keypoints |-> datasetFinalVector(Steady(HandFrame(<< 30, -10, 0 >>)))],
       [id |-> 3, label |-> Label(RIGHT, << "A", "B" >>, << "1" >>),
        keypoints |-> datasetFinalVector(Steady(HandFrame(<< -10, 30, 20 >>)))],
       [id |-> 4, label |-> Label(RIGHT, << "B" >>, << "1" >>),
        keypoints |-> ShortVector] >>

InitManage ==
    /\ InitDatasetOver({ CorpusManaged })
    /\ frameRate = BASE_FPS

NextManage ==
    \/ MountFetchResolve
    \/ MountFetchReject
    \/ \E text \in LetterTexts : SetCurrentLetter(text)
    \/ \E hand \in { RIGHT, LEFT } : SetCurrentHand(hand)
    \/ HandleCalculateAndStoreAverage
    \/ \E i \in 1..Len(dataEntries) : HandleMirrorEntry(i)
    \/ \E i \in 1..Len(dataEntries) : HandleDeleteEntry(i)
    \/ \E c \in asyncCalls : WriteResolve(c)
    \/ \E c \in asyncCalls : WriteReject(c)
    \/ \E c \in asyncCalls : FetchResolve(c)
    \/ \E c \in asyncCalls : FetchReject(c)

\* a session in which a capture runs while the data summary is used, over a
\* collection that holds one variant of RIGHT A
InitWorkflow ==
    /\ InitDatasetOver({ CorpusOnlyA })
    /\ frameRate = BASE_FPS \div 2

NextWorkflow ==
    \/ MountFetchResolve
    \/ \E text \in LetterTexts : SetCurrentLetter(text)
    \/ \E proceed \in BOOLEAN : HandleStartCapture(proceed)
    \/ DatasetOnResults([hand |-> "Right", landmarks |-> DatasetPose])
    \/ CaptureTimeout
    \/ AddDocResolve
    \/ AddDocReject
    \/ StopFetchResolve
    \/ StopFetchReject
    \/ HandleCalculateAndStoreAverage
    \/ \E i \in 1..Len(dataEntries) : HandleMirrorEntry(i)
    \/ \E c \in asyncCalls : WriteResolve(c)
    \/ \E c \in asyncCalls : WriteReject(c)
    \/ \E c \in asyncCalls : FetchResolve(c)
    \/ \E c \in asyncCalls : FetchReject(c)

-----------------------------------------------------------------------------
(* The finalization and the decision as functions of a buffer *)

\* a frame with 20 landmarks, and one with none
ShortFrame == SubSeq(PoseA, 1, LANDMARK_COUNT - 1)
EmptyFrame == << >>

BufferPatterns == { "hand", "mixed", "zero", "short_first", "short_last", "empty_first" }

BufferOf(len, pattern) ==
    [i \in 1..len |->
        IF pattern = "hand" THEN PoseA
        ELSE IF pattern = "zero" THEN ZeroFrame
        ELSE IF pattern = "short_first" /\ i = 1 THEN ShortFrame
        ELSE IF pattern = "short_last" /\ i = len THEN ShortFrame
        ELSE IF pattern = "empty_first" /\ i = 1 THEN EmptyFrame
        ELSE IF i % 3 = 1 THEN PoseA
        ELSE IF i % 3 = 2 THEN PoseB
        ELSE ZeroFrame]

\* buffers of 0 to 2N frames
BufferSet ==
    { BufferOf(len, pattern) : len \in 0..(2 * TARGET_FRAME_COUNT), pattern \in BufferPatterns }

InitCall ==
    /\ page = "none"
    /\ firestore = CorpusOnlyA
    /\ vectors = signDataOf(CorpusOnlyA)
    /\ dimensions = VECTOR_LENGTH
    /\ isInitialized = TRUE
    /\ DetectionUnmounted
    /\ DatasetUnmounted
    /\ frameRate = BASE_FPS
    /\ lastAlert = "none"
    /\ poseChanges = 0
    /\ givenBuffer \in BufferSet
    /\ finalized = NotFinalized
    /\ givenVector = << >>
    /\ returned = NotReturned
    /\ NoAsyncCalls
    /\ docsCreated = Len(firestore)

\* Detection.jsx, lines 1067-1131 on the buffer: processSequenceToVector and
\* the decision, for the hand 'Right' and the target letter 'A'
CallProcessSequence ==
    /\ page = "none"
    /\ ~finalized.detection.done
    /\ finalized' =
          [finalized EXCEPT !.detection =
              [done |-> TRUE,
               frames |-> framesToProcess(givenBuffer),
               queryOk |-> processSequenceToVector(givenBuffer).ok,
               outcome |-> decide(matchOf(givenBuffer, "Right", << "A" >>))]]
    /\ UNCHANGED << page, firestore, docsCreated, storeVars, detectionVars, datasetVars,
                    sharedVars, manageVars, givenBuffer, givenVector, returned >>

\* Dataset.jsx, lines 519-550 of handleStopCapture on the buffer
CallStopCapture ==
    /\ page = "none"
    /\ ~finalized.dataset.done
    /\ finalized' =
          [finalized EXCEPT !.dataset =
              [done |-> TRUE,
               frames |-> datasetFramesToProcess(givenBuffer),
               vectorLength |-> Len(datasetFinalVector(givenBuffer))]]
    /\ UNCHANGED << page, firestore, docsCreated, storeVars, detectionVars, datasetVars,
                    sharedVars, manageVars, givenBuffer, givenVector, returned >>

NextCall == CallProcessSequence \/ CallStopCapture

-----------------------------------------------------------------------------
(* mirrorVector and the queries of the store as functions of a vector *)

\* the vector a capture of a steady hand stores (six decimals), and the
\* vectors the Detection page makes of a sequence (not rounded)
StoredVector == datasetFinalVector(Steady(DatasetPose))
QueryA == processSequenceToVector(Steady(PoseA)).vector
QueryB == processSequenceToVector(Steady(PoseB)).vector
ZeroVector == [k \in 1..VECTOR_LENGTH |-> 0]

\* the query vectors: of the right length, shorter, longer and empty
QuerySet ==
    { QueryA, QueryB, ZeroVector,
      [k \in 1..VECTOR_LENGTH |-> -QueryA[k]],
      SubSeq(QueryA, 1, 3 * LANDMARK_COUNT),
      QueryA \o << 0, 0, 0 >>,
      << >> }

\* the vectors handed to mirrorVector: stored vectors as well
VectorSet ==
    QuerySet \cup
    { StoredVector, mirrorVector(StoredVector), SubSeq(StoredVector, 1, VECTOR_LENGTH - 3) }

\* two signs with the same vector, LEFT B before RIGHT A
CorpusTie ==
    << RefDoc(1, LEFT, "B", "1", Steady(PoseA)),
       RefDoc(2, RIGHT, "A", "1", Steady(PoseA)),
       RefDoc(3, RIGHT, "A", "2", Steady(PoseA)) >>

\* a document without keypoints, and vectors of one frame only
CorpusOneFrame ==
    << [id |-> 1, label |-> Label(RIGHT, << "B" >>, << "1" >>), keypoints |-> << >>],
       [id |-> 2, label |-> Label(RIGHT, << "A" >>, << "1" >>),
        keypoints |-> SubSeq(QueryA, 1, 3 * LANDMARK_COUNT)],
       [id |-> 3, label |-> Label(RIGHT, << "B" >>, << "2" >>),
        keypoints |-> SubSeq(QueryB, 1, 3 * LANDMARK_COUNT)] >>

\* the collections the store is loaded from
StoreCorpusSet == { << >>, CorpusFull, CorpusTie, CorpusOneFrame }

\* how often loadFromFirebase is called on the store
MaxLoads == 2

InitFunction ==
    /\ page = "none"
    /\ firestore \in StoreCorpusSet
    /\ \E loaded \in StoreCorpusSet :
          LET store == loadFromFirebase(
                           [vectors |-> << >>, dimensions |-> 0, isInitialized |-> FALSE],
                           loaded, FALSE).store
          IN  /\ vectors = store.vectors
              /\ dimensions = store.dimensions
              /\ isInitialized = store.isInitialized
    /\ DetectionUnmounted
    /\ DatasetUnmounted
    /\ frameRate = BASE_FPS
    /\ lastAlert = "none"
    /\ poseChanges = 0
    /\ givenBuffer = << >>
    /\ finalized = NotFinalized
    /\ givenVector \in VectorSet
    /\ returned = NotReturned
    /\ NoAsyncCalls
    /\ docsCreated = Len(firestore)

\* mirrorVector(givenVector), and mirrorVector of what it returned
CallMirrorVector ==
    /\ page = "none"
    /\ ~returned.mirrorVector.done
    /\ returned' =
          [returned EXCEPT !.mirrorVector =
              [done |-> TRUE,
               once |-> mirrorVector(givenVector),
               twice |-> mirrorVector(mirrorVector(givenVector))]]
    /\ UNCHANGED << page, firestore, docsCreated, storeVars, detectionVars, datasetVars,
                    sharedVars, manageVars, givenBuffer, finalized, givenVector >>

\* SignVectorStore.findBestMatch(givenVector)
CallFindBestMatch ==
    /\ page = "none"
    /\ ~returned.findBestMatch.done
    /\ givenVector \in QuerySet
    /\ returned' =
          [returned EXCEPT !.findBestMatch =
              [done |-> TRUE, match |-> findBestMatch(givenVector)]]
    /\ UNCHANGED << page, firestore, docsCreated, storeVars, detectionVars, datasetVars,
                    sharedVars, manageVars, givenBuffer, finalized, givenVector >>

\* SignVectorStore.findBestMatchAveraged(givenVector)
CallFindBestMatchAveraged ==
    /\ page = "none"
    /\ ~returned.findBestMatchAveraged.done
    /\ givenVector \in QuerySet
    /\ returned' =
          [returned EXCEPT !.findBestMatchAveraged =
              [done |-> TRUE, match |-> findBestMatchAveraged(givenVector)]]
    /\ UNCHANGED << page, firestore, docsCreated, storeVars, detectionVars, datasetVars,
                    sharedVars, manageVars, givenBuffer, finalized, givenVector >>

\* await SignVectorStore.loadFromFirebase(), over the collection as it is
CallLoadFromFirebase(getDocsFails) ==
    /\ page = "none"
    /\ returned.loadFromFirebase.calls < MaxLoads
    /\ LET call == loadFromFirebase(theStore, firestore, getDocsFails)
       IN  /\ vectors' = call.store.vectors
           /\ dimensions' = call.store.dimensions
           /\ isInitialized' = call.store.isInitialized
           /\ returned' =
                 [returned EXCEPT !.loadFromFirebase =
                     [calls |-> @.calls + 1, returns |-> call.returns]]
    /\ UNCHANGED << page, firestore, docsCreated, detectionVars, datasetVars,
                    sharedVars, manageVars, givenBuffer, finalized, givenVector >>

NextFunction ==
    \/ CallMirrorVector
    \/ CallFindBestMatch
    \/ CallFindBestMatchAveraged
    \/ \E getDocsFails \in BOOLEAN : CallLoadFromFirebase(getDocsFails)

\* a session of a page that uses the store, opened before the store is loaded
InitSession ==
    /\ InitFunction
    /\ vectors = << >>

\* handleDeleteEntry of a Dataset page, its deleteDoc resolved: the document
\* firestore[i] leaves the collection; the handler does not refer to the store
DeleteDocResolved(i) ==
    /\ page = "none"
    /\ i \in 1..Len(firestore)
    /\ firestore' = SelectSeq(firestore, LAMBDA e : e.id # firestore[i].id)
    /\ UNCHANGED << page, docsCreated, storeVars, detectionVars, datasetVars,
                    sharedVars, manageVars, callVars >>

NextSession ==
    \/ CallFindBestMatch
    \/ CallFindBestMatchAveraged
    \/ \E getDocsFails \in BOOLEAN : CallLoadFromFirebase(getDocsFails)
    \/ \E i \in 1..Len(firestore) : DeleteDocResolved(i)

\* a store that is not loaded, and no query to make
InitOverlap ==
    /\ InitSession
    /\ givenVector = << >>

\* a loadFromFirebase call that is suspended at its await of getDocs
LoadCall == [n |-> callsStarted + 1, op |-> "load", pc |-> "getDocs"]

\* loadFromFirebase up to its await: the test of isInitialized, and the call
\* of getDocs
LoadFromFirebaseStart ==
    /\ page = "none"
    /\ callsStarted < MaxLoads
    /\ callsStarted' = callsStarted + 1
    /\ IF isInitialized
       THEN /\ returned' = [returned EXCEPT !.loadFromFirebase =
                               [calls |-> @.calls + 1, returns |-> Len(vectors)]]
            /\ asyncCalls' = asyncCalls
       ELSE /\ asyncCalls' = asyncCalls \cup { LoadCall }
            /\ returned' = returned
    /\ UNCHANGED << page, firestore, docsCreated, storeVars, detectionVars, datasetVars,
                    sharedVars, givenBuffer, finalized, givenVector >>

\* getDocs of the suspended call c resolved or, with getDocsFails, rejected:
\* the call runs to its end
LoadFromFirebaseResume(c, getDocsFails) ==
    /\ page = "none"
    /\ c \in asyncCalls /\ c.op = "load"
    /\ asyncCalls' = asyncCalls \ { c }
    /\ LET call == loadFromFirebaseResumed(theStore, firestore, getDocsFails)
       IN  /\ vectors' = call.store.vectors
           /\ dimensions' = call.store.dimensions
           /\ isInitialized' = call.store.isInitialized
           /\ returned' =
                 [returned EXCEPT !.loadFromFirebase =
                     [calls |-> @.calls + 1, returns |-> call.returns]]
    /\ UNCHANGED << page, firestore, docsCreated, detectionVars, datasetVars,
                    sharedVars, callsStarted, givenBuffer, finalized, givenVector >>

NextOverlap ==
    \/ LoadFromFirebaseStart
    \/ \E c \in asyncCalls : LoadFromFirebaseResume(c, FALSE)
    \/ \E c \in asyncCalls : LoadFromFirebaseResume(c, TRUE)
    \/ \E i \in 1..Len(firestore) : DeleteDocResolved(i)

-----------------------------------------------------------------------------
(* Specifications *)

Init == InitDetection \/ InitDataset

Next == NextDetection \/ NextDataset

\* a session on either page
Spec == Init /\ [][Next]_vars

\* the Detection page alone
DetectionSpec == InitDetection /\ [][NextDetection]_vars

\* the Dataset page alone
DatasetSpec == InitDataset /\ [][NextDataset]_vars

\* the Dataset page over several captures of one sign
RecaptureSpec == InitRecapture /\ [][NextRecapture]_vars

\* the Dataset page with a capture and the data summary at work together
WorkflowSpec == InitWorkflow /\ [][NextWorkflow]_vars

\* the store of one session, and a collection that loses entries meanwhile
SessionSpec == InitSession /\ [][NextSession]_vars

\* loadFromFirebase calls that overlap at their await of getDocs
OverlapSpec == InitOverlap /\ [][NextOverlap]_vars

\* the finalization and the decision applied to buffers of 0 to 2N frames
CallSpec == InitCall /\ [][NextCall]_vars

\* the data summary of the Dataset page: average, mirror and delete requests
\* over a collection that is already there
ManageSpec == InitManage /\ [][NextManage]_vars

\* mirrorVector and the queries of the store applied to given vectors
FunctionSpec == InitFunction /\ [][NextFunction]_vars

\* the Detection page with a camera that keeps delivering frames while no
\* hand is in view, and a countdown interval that keeps ticking
FairDetectionSpec ==
    /\ DetectionSpec
    /\ WF_vars(Frame(NoHand))
    /\ WF_vars(CountdownTick)

-----------------------------------------------------------------------------
(* Properties of the decision (Detection.jsx) *)

\* the best match of decision d has similarity >= 0.70
StrongMatch(d) ==
    /\ d.queryOk /\ d.match.found
    /\ d.match.similarity.dot >= 0
    /\ 100 * d.match.similarity.dot * d.match.similarity.dot
           >= 49 * d.match.similarity.mm

\* the best match of decision d is the group of the attempt's target
OnTarget(d) == d.match.label = ToUpperHand(d.hand) \o SPACE \o d.letter

\* currentScore is similarity * 100 rounded to the nearest integer
ScoreIsRounded(d) ==
    /\ currentScore \in 0..100
    /\ (2 * currentScore + 1) * (2 * currentScore + 1) * d.match.similarity.mm
           > 200 * d.match.similarity.dot * 200 * d.match.similarity.dot
    /\ \/ currentScore = 0
       \/ (2 * currentScore - 1) * (2 * currentScore - 1) * d.match.similarity.mm
             <= 200 * d.match.similarity.dot * 200 * d.match.similarity.dot

\* C1: an attempt is decided as success if and only if the store returned a
\* match of similarity >= 0.70 whose hand side and symbol are the target's;
\* result = true is only ever set by such a decision.
C1_SuccessIffStrongOnTarget ==
    /\ result = "true" => lastDecision.made
    /\ lastDecision.made =>
          (result = "true" <=> (StrongMatch(lastDecision) /\ OnTarget(lastDecision)))

C1_Witness ==
    /\ result = "true"
    /\ lastDecision.made /\ StrongMatch(lastDecision) /\ OnTarget(lastDecision)

\* C2: a decision whose best match has similarity >= 0.70 but is not the
\* target's (hand side or symbol differs) ends as failure with the reason
\* WRONG_SIGN carrying the matched symbol.
C2_WrongSignOnAnyMismatch ==
    (lastDecision.made /\ StrongMatch(lastDecision) /\ ~OnTarget(lastDecision))
        => /\ result = "false"
           /\ failureMessage = WRONG_SIGN_PREFIX \o Field(lastDecision.match.label, 2)

\* C3: a decision with no match, or with a best match of similarity < 0.70,
\* ends as failure with the reason NO_MATCH; the score shown is
\* round(similarity * 100) of the best match, and 0 when there is none.
C3_NoMatchBelowThreshold ==
    (lastDecision.made /\ ~StrongMatch(lastDecision))
        => /\ result = "false"
           /\ failureMessage = NO_MATCH
           /\ IF lastDecision.queryOk /\ lastDecision.match.found
              THEN ScoreIsRounded(lastDecision)
              ELSE currentScore = 0

C3_Witness ==
    /\ lastDecision.made /\ lastDecision.match.found /\ ~StrongMatch(lastDecision)
    /\ failureMessage = NO_MATCH
    /\ currentScore > 50

\* C4: every attempt that has entered Sampling (detecting, countdown over)
\* reaches a decision while frames keep arriving, also when the pose
\* capability reports no hand: an attempt that is sampling with no hand
\* reported is decided, unless a hand comes into view first.
C4_SamplingLeadsToDecided ==
    (isDetecting /\ countdown = 0 /\ handType = "null")
        ~> (~isDetecting \/ handType # "null")

\* C5: every step into Countdown, from Start / Try Again or from Next letter,
\* is taken only when the store holds an entry for the target hand and symbol.
C5_CountdownOnlyWithEntries ==
    [][(~isDetecting /\ isDetecting')
          => variantsCount(vectors', baseLabelOf(handType'), currentLetter') > 0]_vars

-----------------------------------------------------------------------------
(* Properties of the samplers (Dataset.jsx, Detection.jsx) *)

\* C7: the sample buffer never holds more than N = 7 frames, in the dataset
\* capture and in the live matching.
C7_BuffersAtMostN ==
    /\ Len(captureBuffer) <= TARGET_FRAME_COUNT
    /\ Len(sequenceBuffer) <= TARGET_FRAME_COUNT

\* a capture whose buffer is full while the capture is still running, its
\* seventh sample a zero frame taken at a sample point
C7_Witness ==
    /\ isCapturing
    /\ Len(captureBuffer) = TARGET_FRAME_COUNT
    /\ captureFrameCounter % targetGap = 0
    /\ samplesTaken = TARGET_FRAME_COUNT
    /\ captureBuffer[TARGET_FRAME_COUNT] = ZeroFrame

\* C8: a sample push that brings the capture buffer to length N stops the
\* capture while that same frame is processed, whether the sample was a
\* detected hand or a zero frame.
C8_FullBufferStopsCapture ==
    [][(/\ isCapturing
        /\ samplesTaken' = samplesTaken + 1
        /\ Len(captureBuffer') = TARGET_FRAME_COUNT) => ~isCapturing']_vars

-----------------------------------------------------------------------------
(* Properties of the finalization *)

\* out is the first min(len, N) frames of in, in order, then zero frames
FirstNThenZeros(in, out) ==
    /\ Len(out) = TARGET_FRAME_COUNT
    /\ \A i \in 1..TARGET_FRAME_COUNT :
          out[i] = IF i <= Len(in) THEN in[i] ELSE ZeroFrame

\* C9: for every buffer of 0 to 2N frames the finalization of either page
\* yields exactly N frames: the first min(len, N) buffered frames in their
\* order, then zero frames.
C9_FinalizeYieldsN ==
    /\ finalized.detection.done => FirstNThenZeros(givenBuffer, finalized.detection.frames)
    /\ finalized.dataset.done => FirstNThenZeros(givenBuffer, finalized.dataset.frames)

C9_Witness ==
    /\ finalized.detection.done /\ finalized.dataset.done
    /\ Len(givenBuffer) = 2 * TARGET_FRAME_COUNT
    /\ givenBuffer[TARGET_FRAME_COUNT + 1] # ZeroFrame

-----------------------------------------------------------------------------
(* Properties of the sampling gap *)

\* g is Math.max(1, Math.round(fps * 3 / 7)) for an estimate fps in millionths
IsGapOf(g, fps) ==
    /\ g >= 1
    /\ 2 * (TARGET_DURATION_MS \div 1000) * fps
           < (2 * g + 1) * TARGET_FRAME_COUNT * FPS_SCALE
    /\ \/ g = 1
       \/ (2 * g - 1) * TARGET_FRAME_COUNT * FPS_SCALE
             <= 2 * (TARGET_DURATION_MS \div 1000) * fps

\* The estimate 0.9 * old + 0.1 * new moves a tenth of the way to the camera's
\* rate with every frame.  After the six gaps of SAMPLE_RATE frames that
\* precede a seventh sample it is closer to the rate than a hundredth of the
\* distance of BASE_FPS from it (0.9^60 < 0.01): these are the gaps of such
\* estimates.
SettledGaps(rate) ==
    LET settled == rate * FPS_SCALE
        farthest == rate * FPS_SCALE + ((BASE_FPS - rate) * FPS_SCALE) \div 100
    IN  { g \in 1..(2 * BASE_SAMPLE_RATE) :
            \/ IsGapOf(g, settled)
            \/ IsGapOf(g, farthest) }

\* the gap of the capture in force is the gap of the running estimate
CaptureGapFollowsEstimate ==
    (isCapturing /\ captureFrameCounter > 0
       /\ captureFrameCounter <= ((BASE_FPS * TARGET_DURATION_MS) \div 1000) * 2)
        => IsGapOf(targetGap, actualFPS)

RateGap(rate) == CHOOSE g \in 1..(4 * BASE_SAMPLE_RATE) : IsGapOf(g, rate * FPS_SCALE)

\* C12: with frames arriving at the fixed rate frameRate, every frame of a
\* capture leaves the gap at least as close to round(frameRate * 3 / 7) as it
\* was, on the same side of it; a gap that has reached that value keeps it
\* for the rest of the capture.
C12_GapMovesTowardRate ==
    [][(isCapturing /\ isCapturing' /\ captureFrameCounter' = captureFrameCounter + 1)
          => \/ RateGap(frameRate) <= targetGap' /\ targetGap' <= targetGap
             \/ targetGap <= targetGap' /\ targetGap' <= RateGap(frameRate)]_vars

\* a capture whose gap has come from the base rate to round(frameRate * 3 / 7)
C12_Witness ==
    /\ isCapturing
    /\ RateGap(frameRate) # BASE_SAMPLE_RATE
    /\ targetGap = RateGap(frameRate)

-----------------------------------------------------------------------------
(* Properties of mirrorVector (Dataset.jsx) *)

\* every component is a multiple of 10^-6
SixDecimals(v) == \A k \in 1..Len(v) : v[k] % 10 = 0

\* C13: for every vector v of VECTOR_LENGTH components given with six decimals,
\* mirrorVector(v) has the length of v, with every x and every z negated and
\* every y unchanged, and mirrorVector(mirrorVector(v)) is v again
C13_MirrorIsInvolution ==
    (returned.mirrorVector.done /\ Len(givenVector) = VECTOR_LENGTH /\ SixDecimals(givenVector))
        => /\ Len(returned.mirrorVector.once) = Len(givenVector)
           /\ \A k \in 1..VECTOR_LENGTH :
                 returned.mirrorVector.once[k] =
                     IF k % 3 = 2 THEN givenVector[k] ELSE -givenVector[k]
           /\ returned.mirrorVector.twice = givenVector

\* a stored vector with a joint off the wrist in x and in z has been mirrored
C13_Witness ==
    /\ returned.mirrorVector.done
    /\ Len(givenVector) = VECTOR_LENGTH /\ SixDecimals(givenVector)
    /\ \E k \in 1..VECTOR_LENGTH : k % 3 = 1 /\ givenVector[k] # 0
    /\ \E k \in 1..VECTOR_LENGTH : k % 3 = 0 /\ givenVector[k] # 0
    /\ returned.mirrorVector.once # givenVector

\* C14: mirroring a vector that has not VECTOR_LENGTH components persists no
\* entry under the opposite-hand label
C14_WrongLengthMirrorNotPersisted ==
    [][\A c \in asyncCalls :
          (c.op = "mirror" /\ c.pc = "write" /\ Len(c.keypoints) # VECTOR_LENGTH)
              => ~labelExists(SelectSeq(firestore', LAMBDA e : e.id > docsCreated), c.label)]_vars

-----------------------------------------------------------------------------
(* Properties of the store (VectorStore.js) *)

\* C15: once the store is initialized, a call of loadFromFirebase leaves
\* vectors, dimensions and isInitialized as they are and returns the number
\* of loaded vectors, whatever the collection holds at the call
C15_LoadIsIdempotent ==
    [][(isInitialized /\ returned'.loadFromFirebase.calls > returned.loadFromFirebase.calls)
          => /\ vectors' = vectors
             /\ dimensions' = dimensions
             /\ isInitialized' = isInitialized
             /\ returned'.loadFromFirebase.returns = Len(vectors)]_vars

\* loadFromFirebase has returned twice on an initialized store, over a
\* collection that is not the one the store was loaded from
C15_Witness ==
    /\ isInitialized
    /\ returned.loadFromFirebase.calls = MaxLoads
    /\ returned.loadFromFirebase.returns = Len(vectors)
    /\ signDataOf(firestore) # vectors
    /\ Len(signDataOf(firestore)) > 0

\* the similarity of the given vector with the stored sign i
similarityOf(i) == cosineSimilarity(givenVector, vectors[i].keypoints)

\* C16: findBestMatch returns null when the store is uninitialized or empty,
\* when the query has not `dimensions` components, and when no stored sign has
\* a strictly positive similarity with the query; it leaves the store as it is
C16_FindBestMatchNullCases ==
    [][(~returned.findBestMatch.done /\ returned'.findBestMatch.done)
          => /\ storeVars' = storeVars
             /\ (\/ ~isInitialized
                 \/ Len(vectors) = 0
                 \/ Len(givenVector) # dimensions
                 \/ \A i \in 1..Len(vectors) : ~SimPositive(similarityOf(i)))
                    => ~returned'.findBestMatch.match.found]_vars

\* findBestMatch has returned null on a loaded store, for a query that is
\* shorter than the stored vectors and lies along one of them
C16_Witness ==
    /\ returned.findBestMatch.done
    /\ ~returned.findBestMatch.match.found
    /\ isInitialized /\ Len(vectors) > 0
    /\ Len(givenVector) > 0 /\ Len(givenVector) < dimensions
    /\ \E i \in 1..Len(vectors) : SimPositive(similarityOf(i))

\* the similarity of the given vector with the average of the group signKey
groupSimilarityOf(signKey) ==
    cosineSimilarity(givenVector, avgVectorTimesN(groupOf(vectors, signKey), dimensions))

\* the '<HAND> <SYMBOL>' keys of the stored signs
storedSignKeys == { signKeyOf(vectors[i].label) : i \in 1..Len(vectors) }

\* C17: findBestMatchAveraged returns null in the cases in which findBestMatch
\* does: an uninitialized or empty store, a query that has not `dimensions`
\* components (fewer or more), and no group average with a strictly positive
\* similarity
C17_AveragedNullCases ==
    [][(~returned.findBestMatchAveraged.done /\ returned'.findBestMatchAveraged.done)
          => ((\/ ~isInitialized
               \/ Len(vectors) = 0
               \/ Len(givenVector) # dimensions
               \/ \A signKey \in storedSignKeys : ~SimPositive(groupSimilarityOf(signKey)))
                  => ~returned'.findBestMatchAveraged.match.found)]_vars

\* where the group signKey first appears in the load order
firstOf(signKey) ==
    CHOOSE i \in 1..Len(vectors) :
        /\ signKeyOf(vectors[i].label) = signKey
        /\ \A j \in 1..(i - 1) : signKeyOf(vectors[j].label) # signKey

\* the stored sign i has the greatest similarity with the given vector, and a
\* strictly greater one than every sign loaded before it
IsBestSign(i) ==
    /\ \A j \in 1..Len(vectors) : ~SimGreater(similarityOf(j), similarityOf(i))
    /\ \A j \in 1..(i - 1) : SimGreater(similarityOf(i), similarityOf(j))

\* the same for the group signKey among the group averages
IsBestGroup(signKey) ==
    \A other \in storedSignKeys :
        /\ ~SimGreater(groupSimilarityOf(other), groupSimilarityOf(signKey))
        /\ firstOf(other) < firstOf(signKey)
              => SimGreater(groupSimilarityOf(signKey), groupSimilarityOf(other))

\* C18: a result of findBestMatch is the stored sign of greatest similarity,
\* the earliest in the load order among equals, and a result of
\* findBestMatchAveraged is the '<HAND> <SYMBOL>' group whose average has the
\* greatest similarity, the group that appears first among equals
C18_BestMatchIsFirstMaximum ==
    /\ (returned.findBestMatch.done /\ returned.findBestMatch.match.found)
          => \E i \in 1..Len(vectors) :
                /\ vectors[i].label = returned.findBestMatch.match.label
                /\ similarityOf(i) = returned.findBestMatch.match.similarity
                /\ IsBestSign(i)
    /\ (returned.findBestMatchAveraged.done /\ returned.findBestMatchAveraged.match.found)
          => /\ returned.findBestMatchAveraged.match.label \in storedSignKeys
             /\ groupSimilarityOf(returned.findBestMatchAveraged.match.label)
                    = returned.findBestMatchAveraged.match.similarity
             /\ IsBestGroup(returned.findBestMatchAveraged.match.label)

\* both queries have returned a match on a store in which a later sign, of
\* another group, is as similar to the query as the match
C18_Witness ==
    /\ returned.findBestMatch.done /\ returned.findBestMatch.match.found
    /\ returned.findBestMatchAveraged.done /\ returned.findBestMatchAveraged.match.found
    /\ \E i, j \in 1..Len(vectors) :
          /\ i < j
          /\ vectors[i].label = returned.findBestMatch.match.label
          /\ signKeyOf(vectors[i].label) = returned.findBestMatchAveraged.match.label
          /\ signKeyOf(vectors[j].label) # signKeyOf(vectors[i].label)
          /\ ~SimGreater(similarityOf(i), similarityOf(j))
          /\ ~SimGreater(groupSimilarityOf(signKeyOf(vectors[i].label)),
                         groupSimilarityOf(signKeyOf(vectors[j].label)))

-----------------------------------------------------------------------------
(* Properties of the stored averages (Dataset.jsx) *)

\* the entries of the pair (hand, symbol) that carry a numbered variant
numberedVariantsOf(entries, hand, symbol) ==
    SelectSeq(entries, LAMBDA e :
        /\ Field(e.label, 1) = hand
        /\ Field(e.label, 2) = symbol
        /\ ~parseInt(Field(e.label, 3)).isNaN)

\* C19: the average requested for a pair (hand, symbol) is the componentwise
\* mean of exactly the entries of that hand and that symbol which carry a
\* numbered variant; entries of other symbols contribute nothing
C19_AverageOfExactPair ==
    [][\A c \in asyncCalls' \ asyncCalls :
          c.op = "average"
              => /\ Len(numberedVariantsOf(dataEntries, currentHand, trimmedLetter)) > 0
                 /\ c.keypoints =
                       avgVectorOf(numberedVariantsOf(dataEntries, currentHand, trimmedLetter))]_vars

\* C20: at no time does the collection hold two entries of the same hand and
\* symbol that carry the AVERAGE variant
C20_AtMostOneAveragePerPair ==
    \A i, j \in 1..Len(firestore) :
        (/\ i # j
         /\ Field(firestore[i].label, 3) = AVERAGE_VERSION_IDENTIFIER
         /\ Field(firestore[j].label, 3) = AVERAGE_VERSION_IDENTIFIER
         /\ Field(firestore[i].label, 1) = Field(firestore[j].label, 1))
            => Field(firestore[i].label, 2) # Field(firestore[j].label, 2)


-----------------------------------------------------------------------------
(* Properties of the countdown and of the letter sequence (Detection.jsx) *)

\* the countdown interval of the current attempt is armed
CountdownTimerPending == isDetecting /\ countdown # 0

\* this step issued a match query
QueryIssued == lastDecision'.made /\ lastDecision' # lastDecision

\* C24: the countdown is set to 3 when an attempt starts and then changes only
\* by one tick down at a time (3 -> 2 -> 1 -> 0), so sampling begins only after
\* exactly 3 ticks; in every state with countdown > 0 the sequence buffer is
\* empty, and no step that ends with countdown > 0 pushes a sample or issues a
\* match query.
C24_NoSamplingDuringCountdown ==
    [][ /\ countdown' # countdown =>
              \/ countdown' = countdown - 1
              \/ countdown' = COUNTDOWN_START /\ ~isDetecting /\ isDetecting'
        /\ (~isDetecting /\ isDetecting') => countdown' = COUNTDOWN_START
        /\ countdown' > 0 => /\ sequenceBuffer' = << >>
                             /\ ~QueryIssued
        /\ (sequenceBuffer' # sequenceBuffer /\ sequenceBuffer' # << >>) =>
              countdown' = 0
        /\ QueryIssued => countdown' = 0 ]_vars

C24_Witness ==
    /\ page = "detection"
    /\ isDetecting /\ countdown = 0
    /\ Len(sequenceBuffer) = 1

\* C25: in the state reached by the step that decides an attempt, as success
\* or as failure, the sequence buffer is empty, the processing flag is cleared
\* and no countdown interval is armed; this stays so until the next attempt
\* starts.
C25_DecidedAttemptLeavesNothing ==
    [][ /\ QueryIssued =>
              /\ sequenceBuffer' = << >>
              /\ ~isProcessingSequence'
              /\ ~CountdownTimerPending'
              /\ result' \in { "true", "false" }
        /\ ~isDetecting' =>
              /\ sequenceBuffer' = << >>
              /\ ~isProcessingSequence'
              /\ ~CountdownTimerPending' ]_vars

C25_Witness ==
    /\ page = "detection"
    /\ lastDecision.made
    /\ result = "false"
    /\ sequenceBuffer = << >> /\ ~isProcessingSequence /\ ~CountdownTimerPending

\* C29: the current letter index changes only by +1, only in a step taken
\* where result is true (the letter was decided as success), and never
\* exceeds the index of the last letter of the name; the result page is
\* reached only from a state where the last letter was decided as success.
C29_LettersInOrder ==
    [][ /\ currentLetterIndex' # currentLetterIndex =>
              /\ currentLetterIndex' = currentLetterIndex + 1
              /\ result = "true" /\ lastDecision.made
              /\ StrongMatch(lastDecision) /\ OnTarget(lastDecision)
        /\ currentLetterIndex' <= Len(processedNameLetters') - 1
        /\ (page # "result" /\ page' = "result") =>
              /\ currentLetterIndex = Len(processedNameLetters) - 1
              /\ result = "true" /\ lastDecision.made
              /\ StrongMatch(lastDecision) /\ OnTarget(lastDecision)
              /\ lastDecision.letter = currentLetter ]_vars

C29_Witness ==
    /\ page = "result"
    /\ Len(processedNameLetters) = 2
    /\ currentLetterIndex = 1

-----------------------------------------------------------------------------
(* Properties of repeated captures (Dataset.jsx) *)

\* this step starts a capture
CaptureStarts == ~isCapturing /\ isCapturing'

\* C30: every capture starts from the same sampler state: empty buffer, frame
\* counter 0, gap 10 and FPS estimate 24.
C30_EveryCaptureStartsFromBaseState ==
    [][ CaptureStarts =>
            /\ captureBuffer' = << >>
            /\ captureFrameCounter' = 0
            /\ targetGap' = BASE_SAMPLE_RATE
            /\ actualFPS' = BASE_FPS * FPS_SCALE ]_vars

\* the captures that have been finalized
capturesFinalized == IF isCapturing THEN capturesStarted - 1 ELSE capturesStarted

\* C26: each capture is finalized at most once, by the full buffer or by its
\* 3 s timeout: while it runs its own timer is the only one armed, once it is
\* finalized no timer is left that could finalize again, at most one
\* finalization is in flight and it belongs to no running capture, and no
\* more entries are persisted than captures were finalized.
C26_OneFinalizationPerCapture ==
    /\ \A t \in timers : isCapturing /\ t.id = timeoutId /\ t.id = capturesStarted
    /\ isCapturing => \E t \in timers : t.id = timeoutId
    /\ stopCall.pc # "none" => ~isCapturing
    /\ docsCreated <= capturesFinalized
    /\ Len(firestore) = docsCreated

C26_Witness ==
    /\ capturesStarted = 2
    /\ ~isCapturing
    /\ timers = { }
    /\ docsCreated = 2
    /\ stopCall.pc = "none"

-----------------------------------------------------------------------------
(* Properties of the capture and the data summary together (Dataset.jsx) *)

\* this step persists an entry, the last one of the collection
EntryPersisted == Len(firestore') = Len(firestore) + 1

persistedEntry == firestore'[Len(firestore')]

\* the label has a numeric third field: a numbered variant
IsNumbered(label) == ~parseInt(Field(label, 3)).isNaN

\* the AVERAGE label of the (hand, symbol) pair of a label
averageLabelOf(label) ==
    Label(Field(label, 1), Field(label, 2), AVERAGE_VERSION_IDENTIFIER)

\* C21: while the collection holds an AVERAGE entry for a (hand, symbol) pair,
\* no step persists a numbered variant of that pair, be it from a capture or
\* from mirroring an entry of the other hand.
C21_NoVariantWhileAverageExists ==
    [][ (EntryPersisted /\ IsNumbered(persistedEntry.label)) =>
            ~labelExists(firestore, averageLabelOf(persistedEntry.label)) ]_vars

\* the labels of the numbered variants of the collection, one per entry
numberedLabels ==
    SelectSeq([i \in 1..Len(firestore) |-> firestore[i].label], IsNumbered)

\* C27: no two numbered entries of the collection share a label, under every
\* interleaving of in-flight mirror writes and deletes and after a failed
\* refresh of the entry list.
C27_NumberedLabelsAreUnique ==
    \A i, j \in 1..Len(numberedLabels) :
        numberedLabels[i] = numberedLabels[j] => i = j

\* a positive decimal integer: digits only, and a value above 0
IsPositiveDecimal(s) ==
    /\ Len(s) > 0
    /\ \A i \in 1..Len(s) : IsDigit(s[i])
    /\ parseInt(s).value > 0

\* '<HAND> <SYMBOL> <VARIANT>': three non-empty fields between single spaces
WellFormedLabel(label) ==
    /\ Len(Split(label)) = 3
    /\ Field(label, 1) \in { RIGHT, LEFT }
    /\ Field(label, 2) # << >>
    /\ \/ Field(label, 3) = AVERAGE_VERSION_IDENTIFIER
       \/ IsPositiveDecimal(Field(label, 3))

\* C23: every label the workflows write has exactly three non-empty fields
\* '<HAND> <SYMBOL> <VARIANT>' with HAND RIGHT or LEFT and VARIANT a positive
\* decimal integer or AVERAGE, whatever the Letter/Sign field holds.
C23_LabelsAreWellFormed ==
    \A i \in 1..Len(firestore) : WellFormedLabel(firestore[i].label)

-----------------------------------------------------------------------------
(* Properties of the store over a session (VectorStore.js) *)

\* this step returned a match from findBestMatch
BestMatchReturned ==
    /\ ~returned.findBestMatch.done
    /\ returned'.findBestMatch.done
    /\ returned'.findBestMatch.match.found

\* this step returned a match from findBestMatchAveraged
AveragedMatchReturned ==
    /\ ~returned.findBestMatchAveraged.done
    /\ returned'.findBestMatchAveraged.done
    /\ returned'.findBestMatchAveraged.match.found

\* C22: a query of the store never returns an entry that has been deleted from
\* the collection, and never a group that is averaged from deleted entries
\* only: the match names an entry, or the group of an entry, that the
\* collection still holds.
C22_DeletedEntryNeverMatched ==
    [][ /\ BestMatchReturned =>
              labelExists(firestore, returned'.findBestMatch.match.label)
        /\ AveragedMatchReturned =>
              \E i \in 1..Len(firestore) :
                  signKeyOf(firestore[i].label)
                      = returned'.findBestMatchAveraged.match.label ]_vars

\* this step is the completion of a suspended loadFromFirebase call
LoadCompletes == asyncCalls' # asyncCalls /\ asyncCalls' \subseteq asyncCalls

\* C28: once the store is initialized, the completion of an overlapping
\* loadFromFirebase call, successful or failed, leaves vectors, dimensions and
\* isInitialized as they are.
C28_CompletionLeavesInitializedStore ==
    [][ (isInitialized /\ LoadCompletes) => UNCHANGED storeVars ]_vars

====
